---- MODULE Spec2Model ----
(***************************************************************************)
(* Task escrow contract (src/src/lib.rs): one TaskEscrow record per task   *)
(* id, funded in a token held by an external token contract.  Every public *)
(* entry point is an operator that runs the handler's statements in order  *)
(* on a copy S of the ledger and returns the result together with the      *)
(* ledger as it stands when the handler returns.  The host commits that    *)
(* ledger when the call succeeded and discards it otherwise.               *)
(***************************************************************************)
EXTENDS Integers, Sequences, FiniteSets, TLC

\* ---------------------------------------------------------------- bounds
MaxTasks == 2
InitBalance == 1100000
MaxTime == 1

\* ------------------------------------------------------- program constants
TASK_ID_LEN == 25
MAX_URL_LEN == 500
MIN_AMOUNT == 100000
MAX_AMOUNT_HI == 100000000
MIN_REASON_LEN == 10
MAX_REASON_LEN == 500
PERCENT == 100

\* --------------------------------------------------------------- universe
None == "None"
Contract == "escrow"
Users == {"alice", "bob"}
Creators == {"alice"}
Addresses == Users \cup {"carol"}
Holders == Addresses \cup {Contract}
Tokens == {"usdcA", "usdcB"}
WasmHashes == {"wasm1"}

\* A soroban String is modelled by its length and a tag standing for its text.
TaskA == [len |-> 25, tag |-> "A"]
TaskB == [len |-> 25, tag |-> "B"]
EmptyId == [len |-> 0, tag |-> ""]
ShortId == [len |-> 2, tag |-> "A"]
ValidTaskIds == {TaskA, TaskB}
TaskIds == ValidTaskIds \cup {EmptyId, ShortId}
Url == [len |-> 40, tag |-> "u"]
Urls == {Url, [len |-> 0, tag |-> ""]}
Reason == [len |-> 20, tag |-> "r"]
Reasons == {Reason, [len |-> 5, tag |-> "r"]}
CreateAmounts == {100000, 1000000}
DeltaAmounts == {900000}
PartialAmounts == {600000, 950000}
Amounts == {-1, 0, 50000, 100000, 600000, 900000, 950000, 1000000}
Resolutions ==
    {[kind |-> "PayContributor", amount |-> 0], [kind |-> "RefundCreator", amount |-> 0]}
    \cup {[kind |-> "PartialPayment", amount |-> a] : a \in PartialAmounts}
AllResolutions ==
    {[kind |-> "PayContributor", amount |-> 0], [kind |-> "RefundCreator", amount |-> 0]}
    \cup {[kind |-> "PartialPayment", amount |-> a] : a \in Amounts}
Signers == {{a} : a \in Addresses}
AuthSets == SUBSET Addresses

VARIABLES
    admin,        \* DataKey::Admin (instance storage), None while unset
    usdc_token,   \* DataKey::UsdcToken (instance storage), None while unset
    task_count,   \* DataKey::TaskCount
    escrows,      \* DataKey::TaskEscrow(task_id) -> TaskEscrow
    disputes,     \* DataKey::Dispute(task_id) -> DisputeInfo
    balance,      \* balances held by the external token contracts
    wasm,         \* hash of the installed contract code
    now,          \* env.ledger().timestamp()
    paused,       \* the pause flag written by set_paused
    paid,         \* history: tokens the payout operations moved out, per task
    input,        \* arguments of the validation helper under examination
    output        \* what that helper returned, None before it ran

vars == <<admin, usdc_token, task_count, escrows, disputes, balance, wasm, now,
          paused, paid, input, output>>

\* The ledger as one value: the contract's instance and persistent storage,
\* the token contracts' balances, the installed code and the events published
\* by the running call.
State ==
    [admin |-> admin, usdc_token |-> usdc_token, task_count |-> task_count,
     escrows |-> escrows, disputes |-> disputes, balance |-> balance,
     wasm |-> wasm, paused |-> paused, events |-> <<>>]

Ret(r, S) == [res |-> r, st |-> S]

\* storage().persistent().set(key, value) on a keyed map
Put(map, key, value) == (key :> value) @@ map

Emit(S, kind, task_id) ==
    [S EXCEPT !.events = Append(@, [kind |-> kind, task_id |-> task_id])]

\* ------------------------------------------------------------- validation
validate_address(a) == "Ok"

\* mutant of validate_task_id: only the empty id is refused
validate_task_id_nonempty(task_id) ==
    IF task_id.len = 0 THEN "EmptyTaskId"
    ELSE "Ok"

validate_task_id(task_id) ==
    IF task_id.len = 0 THEN "EmptyTaskId"
    ELSE IF task_id.len # TASK_ID_LEN THEN "InvalidTaskId"
    ELSE "Ok"

validate_issue_url(url) ==
    IF url.len = 0 THEN "InvalidIssueUrl"
    ELSE IF url.len > MAX_URL_LEN THEN "InvalidIssueUrl"
    ELSE "Ok"

\* amount > 1_000_000_000_0000000 (10^16), written on the two halves of the
\* amount in base 10^8
AboveMax(amount) ==
    \/ amount \div MAX_AMOUNT_HI > MAX_AMOUNT_HI
    \/ amount \div MAX_AMOUNT_HI = MAX_AMOUNT_HI /\ amount % MAX_AMOUNT_HI > 0

validate_amount(amount) ==
    IF amount <= 0 THEN "InvalidAmount"
    ELSE IF amount < MIN_AMOUNT THEN "InvalidAmount"
    ELSE IF AboveMax(amount) THEN "InvalidTokenAmount"
    ELSE IF amount % 1 # 0 THEN "InvalidTokenAmount"
    ELSE "Ok"

\* An i128 amount of any size, written as two limbs in base 10^8:
\* hi * 10^8 + lo with 0 <= lo < 10^8.
Limbs(amount) ==
    [hi |-> amount \div MAX_AMOUNT_HI, lo |-> amount % MAX_AMOUNT_HI]

validate_amount_max_exclusive(x) ==
    IF x.hi < 0 \/ (x.hi = 0 /\ x.lo = 0) THEN "InvalidAmount"
    ELSE IF x.hi = 0 /\ x.lo < MIN_AMOUNT THEN "InvalidAmount"
    ELSE IF x.hi >= MAX_AMOUNT_HI THEN "InvalidTokenAmount"
    ELSE "Ok"

\* validate_amount on the limbs of its argument: amount <= 0, amount < 100000
\* and amount > 10^16 compared limb by limb.
validate_amount_limbs(x) ==
    IF x.hi < 0 \/ (x.hi = 0 /\ x.lo = 0) THEN "InvalidAmount"
    ELSE IF x.hi = 0 /\ x.lo < MIN_AMOUNT THEN "InvalidAmount"
    ELSE IF x.hi > MAX_AMOUNT_HI \/ (x.hi = MAX_AMOUNT_HI /\ x.lo > 0)
         THEN "InvalidTokenAmount"
    ELSE IF x.lo % 1 # 0 THEN "InvalidTokenAmount"
    ELSE "Ok"

validate_dispute_reason(reason) ==
    IF reason.len = 0 THEN "InvalidDisputeReason"
    ELSE IF reason.len < MIN_REASON_LEN THEN "InvalidDisputeReason"
    ELSE IF reason.len > MAX_REASON_LEN THEN "InvalidDisputeReason"
    ELSE "Ok"

validate_partial_payment_ratio_only(partial_amount, total_amount) ==
    IF partial_amount > total_amount THEN "InvalidTokenAmount"
    ELSE LET minimum_partial == total_amount \div PERCENT
             remaining == total_amount - partial_amount
         IN IF partial_amount < minimum_partial THEN "InvalidTokenAmount"
            ELSE IF remaining < minimum_partial THEN "InvalidTokenAmount"
            ELSE "Ok"

validate_partial_payment(partial_amount, total_amount) ==
    IF validate_amount(partial_amount) # "Ok" THEN validate_amount(partial_amount)
    ELSE IF partial_amount > total_amount THEN "InvalidTokenAmount"
    ELSE LET minimum_partial == total_amount \div PERCENT
             remaining == total_amount - partial_amount
         IN IF partial_amount < minimum_partial THEN "InvalidTokenAmount"
            ELSE IF remaining < minimum_partial THEN "InvalidTokenAmount"
            ELSE "Ok"

is_initialized(S) == S.admin # None /\ S.usdc_token # None

validate_contract_state(S) ==
    IF ~is_initialized(S) THEN "ContractNotInitialized"
    ELSE IF S.admin = None THEN "ContractNotInitialized"
    ELSE IF S.usdc_token = None THEN "TokenContractNotSet"
    ELSE "Ok"

\* Address::require_auth: the call traps unless the address authorized it.
require_auth(auth, a) == IF a \in auth THEN "Ok" ELSE "AuthTrap"

\* mutant of require_admin: admin.require_auth() is missing
require_admin_no_auth(S, auth) ==
    IF S.admin = None THEN "ContractNotInitialized" ELSE "Ok"

require_admin(S, auth) ==
    IF S.admin = None THEN "ContractNotInitialized"
    ELSE require_auth(auth, S.admin)

task_exists(S, task_id) == task_id \in DOMAIN S.escrows

get_usdc_token_internal(S) ==
    IF S.usdc_token = None THEN "TokenContractNotSet" ELSE "Ok"

\* ------------------------------------------------------------ token custody
\* token::Client::transfer of the token contract `tok`: it requires the
\* sender's authorization (the calling contract authorizes its own address)
\* and traps on a negative amount or an insufficient balance.
token_transfer(S, auth, tok, from, to, amount) ==
    IF from # Contract /\ from \notin auth THEN Ret("AuthTrap", S)
    ELSE IF amount < 0 \/ S.balance[tok][from] < amount THEN Ret("TokenTrap", S)
    ELSE Ret("Ok", [S EXCEPT !.balance[tok] =
                       [h \in Holders |->
                          S.balance[tok][h]
                          - (IF h = from THEN amount ELSE 0)
                          + (IF h = to THEN amount ELSE 0)]])

transfer_usdc_safe(S, auth, from, to, amount) ==
    IF validate_amount(amount) # "Ok" THEN Ret(validate_amount(amount), S)
    ELSE IF get_usdc_token_internal(S) # "Ok" THEN Ret(get_usdc_token_internal(S), S)
    ELSE IF S.balance[S.usdc_token][from] < amount THEN Ret("InsufficientBalance", S)
    ELSE token_transfer(S, auth, S.usdc_token, from, to, amount)

transfer_usdc_to_contract(S, auth, from, amount) ==
    transfer_usdc_safe(S, auth, from, Contract, amount)

transfer_usdc_from_contract(S, auth, to, amount) ==
    transfer_usdc_safe(S, auth, Contract, to, amount)

\* ------------------------------------------------------------ administration
\* mutant of initialize: the already-initialized check is missing
initialize_again(S, new_admin, token) ==
    Ret("Ok", [S EXCEPT !.admin = new_admin, !.usdc_token = token,
                        !.task_count = 0])

initialize(S, new_admin, token) ==
    IF S.admin # None THEN Ret("TaskAlreadyExists", S)
    ELSE Ret("Ok", [S EXCEPT !.admin = new_admin, !.usdc_token = token,
                             !.task_count = 0])

\* mutant of set_admin: the new admin is not stored
set_admin_not_stored(S, auth, new_admin) ==
    IF require_admin(S, auth) # "Ok" THEN Ret(require_admin(S, auth), S)
    ELSE Ret("Ok", S)

set_admin(S, auth, new_admin) ==
    IF require_admin(S, auth) # "Ok" THEN Ret(require_admin(S, auth), S)
    ELSE Ret("Ok", [S EXCEPT !.admin = new_admin])

update_usdc_token(S, auth, new_usdc_token) ==
    IF require_admin(S, auth) # "Ok" THEN Ret(require_admin(S, auth), S)
    ELSE Ret("Ok", [S EXCEPT !.usdc_token = new_usdc_token])

\* mutant of upgrade: the admin check is missing
upgrade_unguarded(S, auth, new_wasm_hash) ==
    Ret("Ok", [S EXCEPT !.wasm = new_wasm_hash])

upgrade(S, auth, new_wasm_hash) ==
    IF require_admin(S, auth) # "Ok" THEN Ret(require_admin(S, auth), S)
    ELSE Ret("Ok", [S EXCEPT !.wasm = new_wasm_hash])

\* set_paused is not part of lib.rs; it follows the administration section
\* of the specification (admin-only, stores the flag) and tests/test_pause.rs.
set_paused(S, auth, flag) ==
    IF require_admin(S, auth) # "Ok" THEN Ret(require_admin(S, auth), S)
    ELSE Ret("Ok", [S EXCEPT !.paused = flag])

\* ------------------------------------------------------------------ escrows
\* mutant of create_escrow: the inputs are validated before the contract
\* state and the creator's authorization
create_escrow_validates_first(S, auth, t, creator, task_id, issue_url, bounty_amount) ==
    IF validate_task_id(task_id) # "Ok" THEN Ret(validate_task_id(task_id), S)
    ELSE IF validate_issue_url(issue_url) # "Ok" THEN Ret(validate_issue_url(issue_url), S)
    ELSE IF validate_amount(bounty_amount) # "Ok" THEN Ret(validate_amount(bounty_amount), S)
    ELSE IF validate_contract_state(S) # "Ok" THEN Ret(validate_contract_state(S), S)
    ELSE IF require_auth(auth, creator) # "Ok" THEN Ret("AuthTrap", S)
    ELSE IF task_exists(S, task_id) THEN Ret("TaskAlreadyExists", S)
    ELSE LET tr == transfer_usdc_to_contract(S, auth, creator, bounty_amount)
             escrow == [task_id |-> task_id, creator |-> creator,
                        contributor |-> None, has_contributor |-> FALSE,
                        bounty_amount |-> bounty_amount, status |-> "Open",
                        created_at |-> t, completed_at |-> 0, disputed_at |-> 0]
         IN IF tr.res # "Ok" THEN tr
            ELSE Ret("Ok",
                     Emit([tr.st EXCEPT !.escrows = Put(@, task_id, escrow),
                                        !.task_count = tr.st.task_count + 1],
                          "escrow_created", task_id))

\* mutant of create_escrow: the task_exists check is missing
create_escrow_no_exists_check(S, auth, t, creator, task_id, issue_url, bounty_amount) ==
    IF validate_contract_state(S) # "Ok" THEN Ret(validate_contract_state(S), S)
    ELSE IF require_auth(auth, creator) # "Ok" THEN Ret("AuthTrap", S)
    ELSE IF validate_task_id(task_id) # "Ok" THEN Ret(validate_task_id(task_id), S)
    ELSE IF validate_issue_url(issue_url) # "Ok" THEN Ret(validate_issue_url(issue_url), S)
    ELSE IF validate_amount(bounty_amount) # "Ok" THEN Ret(validate_amount(bounty_amount), S)
    ELSE LET tr == transfer_usdc_to_contract(S, auth, creator, bounty_amount)
             escrow == [task_id |-> task_id, creator |-> creator,
                        contributor |-> None, has_contributor |-> FALSE,
                        bounty_amount |-> bounty_amount, status |-> "Open",
                        created_at |-> t, completed_at |-> 0, disputed_at |-> 0]
         IN IF tr.res # "Ok" THEN tr
            ELSE Ret("Ok",
                     Emit([tr.st EXCEPT !.escrows = Put(@, task_id, escrow),
                                        !.task_count = tr.st.task_count + 1],
                          "escrow_created", task_id))

\* mutant of create_escrow: task_count is not incremented
create_escrow_no_count(S, auth, t, creator, task_id, issue_url, bounty_amount) ==
    IF validate_contract_state(S) # "Ok" THEN Ret(validate_contract_state(S), S)
    ELSE IF require_auth(auth, creator) # "Ok" THEN Ret("AuthTrap", S)
    ELSE IF validate_task_id(task_id) # "Ok" THEN Ret(validate_task_id(task_id), S)
    ELSE IF validate_issue_url(issue_url) # "Ok" THEN Ret(validate_issue_url(issue_url), S)
    ELSE IF validate_amount(bounty_amount) # "Ok" THEN Ret(validate_amount(bounty_amount), S)
    ELSE IF task_exists(S, task_id) THEN Ret("TaskAlreadyExists", S)
    ELSE LET tr == transfer_usdc_to_contract(S, auth, creator, bounty_amount)
             escrow == [task_id |-> task_id, creator |-> creator,
                        contributor |-> None, has_contributor |-> FALSE,
                        bounty_amount |-> bounty_amount, status |-> "Open",
                        created_at |-> t, completed_at |-> 0, disputed_at |-> 0]
         IN IF tr.res # "Ok" THEN tr
            ELSE Ret("Ok",
                     Emit([tr.st EXCEPT !.escrows = Put(@, task_id, escrow)],
                          "escrow_created", task_id))

create_escrow(S, auth, t, creator, task_id, issue_url, bounty_amount) ==
    IF validate_contract_state(S) # "Ok" THEN Ret(validate_contract_state(S), S)
    ELSE IF require_auth(auth, creator) # "Ok" THEN Ret("AuthTrap", S)
    ELSE IF validate_task_id(task_id) # "Ok" THEN Ret(validate_task_id(task_id), S)
    ELSE IF validate_issue_url(issue_url) # "Ok" THEN Ret(validate_issue_url(issue_url), S)
    ELSE IF validate_amount(bounty_amount) # "Ok" THEN Ret(validate_amount(bounty_amount), S)
    ELSE IF task_exists(S, task_id) THEN Ret("TaskAlreadyExists", S)
    ELSE LET tr == transfer_usdc_to_contract(S, auth, creator, bounty_amount)
             escrow == [task_id |-> task_id, creator |-> creator,
                        contributor |-> None, has_contributor |-> FALSE,
                        bounty_amount |-> bounty_amount, status |-> "Open",
                        created_at |-> t, completed_at |-> 0, disputed_at |-> 0]
         IN IF tr.res # "Ok" THEN tr
            ELSE Ret("Ok",
                     Emit([tr.st EXCEPT !.escrows = Put(@, task_id, escrow),
                                        !.task_count = tr.st.task_count + 1],
                          "escrow_created", task_id))

\* mutant of with_contributor: the status is left as it was
with_contributor_keep_status(escrow, contributor) ==
    [escrow EXCEPT !.contributor = contributor, !.has_contributor = TRUE]

\* the record update of assign_contributor
with_contributor(escrow, contributor) ==
    [escrow EXCEPT !.contributor = contributor,
                   !.has_contributor = TRUE,
                   !.status = "InProgress"]

assign_contributor(S, auth, task_id, contributor) ==
    IF validate_contract_state(S) # "Ok" THEN Ret(validate_contract_state(S), S)
    ELSE IF validate_task_id(task_id) # "Ok" THEN Ret(validate_task_id(task_id), S)
    ELSE IF validate_address(contributor) # "Ok" THEN Ret("InvalidAddress", S)
    ELSE IF ~task_exists(S, task_id) THEN Ret("TaskNotFound", S)
    ELSE LET escrow == S.escrows[task_id]
         IN IF require_auth(auth, escrow.creator) # "Ok" THEN Ret("AuthTrap", S)
            ELSE IF escrow.has_contributor THEN Ret("ContributorAlreadyAssigned", S)
            ELSE Ret("Ok",
                     Emit([S EXCEPT !.escrows =
                              Put(@, task_id, with_contributor(escrow, contributor))],
                          "contributor_assigned", task_id))

\* mutant of complete_task: the status check is missing
complete_task_any_status(S, auth, t, task_id) ==
    IF validate_contract_state(S) # "Ok" THEN Ret(validate_contract_state(S), S)
    ELSE IF validate_task_id(task_id) # "Ok" THEN Ret(validate_task_id(task_id), S)
    ELSE IF ~task_exists(S, task_id) THEN Ret("TaskNotFound", S)
    ELSE LET escrow == S.escrows[task_id]
         IN IF ~escrow.has_contributor THEN Ret("NoContributorAssigned", S)
            ELSE IF require_auth(auth, escrow.contributor) # "Ok" THEN Ret("AuthTrap", S)
            ELSE Ret("Ok",
                     Emit([S EXCEPT !.escrows =
                              Put(@, task_id,
                                  [escrow EXCEPT !.status = "Completed",
                                                 !.completed_at = t])],
                          "task_completed", task_id))

\* mutant of complete_task: the timestamp is written to created_at
complete_task_stamps_created_at(S, auth, t, task_id) ==
    IF validate_contract_state(S) # "Ok" THEN Ret(validate_contract_state(S), S)
    ELSE IF validate_task_id(task_id) # "Ok" THEN Ret(validate_task_id(task_id), S)
    ELSE IF ~task_exists(S, task_id) THEN Ret("TaskNotFound", S)
    ELSE LET escrow == S.escrows[task_id]
         IN IF escrow.status # "InProgress" THEN Ret("InvalidTaskStatus", S)
            ELSE IF ~escrow.has_contributor THEN Ret("NoContributorAssigned", S)
            ELSE IF require_auth(auth, escrow.contributor) # "Ok" THEN Ret("AuthTrap", S)
            ELSE Ret("Ok",
                     Emit([S EXCEPT !.escrows =
                              Put(@, task_id,
                                  [escrow EXCEPT !.status = "Completed",
                                                 !.created_at = t])],
                          "task_completed", task_id))

complete_task(S, auth, t, task_id) ==
    IF validate_contract_state(S) # "Ok" THEN Ret(validate_contract_state(S), S)
    ELSE IF validate_task_id(task_id) # "Ok" THEN Ret(validate_task_id(task_id), S)
    ELSE IF ~task_exists(S, task_id) THEN Ret("TaskNotFound", S)
    ELSE LET escrow == S.escrows[task_id]
         IN IF escrow.status # "InProgress" THEN Ret("InvalidTaskStatus", S)
            ELSE IF ~escrow.has_contributor THEN Ret("NoContributorAssigned", S)
            ELSE IF require_auth(auth, escrow.contributor) # "Ok" THEN Ret("AuthTrap", S)
            ELSE Ret("Ok",
                     Emit([S EXCEPT !.escrows =
                              Put(@, task_id,
                                  [escrow EXCEPT !.status = "Completed",
                                                 !.completed_at = t])],
                          "task_completed", task_id))

approve_completion(S, auth, task_id) ==
    IF validate_contract_state(S) # "Ok" THEN Ret(validate_contract_state(S), S)
    ELSE IF validate_task_id(task_id) # "Ok" THEN Ret(validate_task_id(task_id), S)
    ELSE IF ~task_exists(S, task_id) THEN Ret("TaskNotFound", S)
    ELSE LET escrow == S.escrows[task_id]
             tr == transfer_usdc_from_contract(S, auth, escrow.contributor,
                                               escrow.bounty_amount)
         IN IF require_auth(auth, escrow.creator) # "Ok" THEN Ret("AuthTrap", S)
            ELSE IF escrow.status # "Completed" THEN Ret("TaskNotCompleted", S)
            ELSE IF ~escrow.has_contributor THEN Ret("NoContributorAssigned", S)
            ELSE IF tr.res # "Ok" THEN tr
            ELSE Ret("Ok",
                     Emit([tr.st EXCEPT !.escrows =
                              Put(@, task_id, [escrow EXCEPT !.status = "Resolved"])],
                          "funds_released", task_id))

\* mutant of dispute_task: the creator-or-contributor check is missing
dispute_task_any_party(S, auth, t, disputing_party, task_id, reason) ==
    IF validate_contract_state(S) # "Ok" THEN Ret(validate_contract_state(S), S)
    ELSE IF validate_task_id(task_id) # "Ok" THEN Ret(validate_task_id(task_id), S)
    ELSE IF validate_address(disputing_party) # "Ok" THEN Ret("InvalidAddress", S)
    ELSE IF validate_dispute_reason(reason) # "Ok" THEN Ret(validate_dispute_reason(reason), S)
    ELSE IF require_auth(auth, disputing_party) # "Ok" THEN Ret("AuthTrap", S)
    ELSE IF ~task_exists(S, task_id) THEN Ret("TaskNotFound", S)
    ELSE LET escrow == S.escrows[task_id]
             dispute_info == [task_id |-> task_id,
                              disputing_party |-> disputing_party,
                              reason |-> reason, initiated_at |-> t]
         IN IF ~escrow.has_contributor THEN Ret("NoContributorAssigned", S)
            ELSE IF escrow.status \in {"Resolved", "Disputed", "Cancelled"}
                 THEN Ret("TaskAlreadyResolved", S)
            ELSE Ret("Ok",
                     Emit([S EXCEPT !.disputes = Put(@, task_id, dispute_info),
                                    !.escrows =
                                       Put(@, task_id,
                                           [escrow EXCEPT !.status = "Disputed",
                                                          !.disputed_at = t])],
                          "dispute_initiated", task_id))

\* mutant of dispute_task: disputed_at is not written
dispute_task_no_stamp(S, auth, t, disputing_party, task_id, reason) ==
    IF validate_contract_state(S) # "Ok" THEN Ret(validate_contract_state(S), S)
    ELSE IF validate_task_id(task_id) # "Ok" THEN Ret(validate_task_id(task_id), S)
    ELSE IF validate_address(disputing_party) # "Ok" THEN Ret("InvalidAddress", S)
    ELSE IF validate_dispute_reason(reason) # "Ok" THEN Ret(validate_dispute_reason(reason), S)
    ELSE IF require_auth(auth, disputing_party) # "Ok" THEN Ret("AuthTrap", S)
    ELSE IF ~task_exists(S, task_id) THEN Ret("TaskNotFound", S)
    ELSE LET escrow == S.escrows[task_id]
             is_creator == disputing_party = escrow.creator
             is_contributor == escrow.has_contributor
                               /\ disputing_party = escrow.contributor
             dispute_info == [task_id |-> task_id,
                              disputing_party |-> disputing_party,
                              reason |-> reason, initiated_at |-> t]
         IN IF ~escrow.has_contributor THEN Ret("NoContributorAssigned", S)
            ELSE IF escrow.status \in {"Resolved", "Disputed", "Cancelled"}
                 THEN Ret("TaskAlreadyResolved", S)
            ELSE IF ~is_creator /\ ~is_contributor THEN Ret("OnlyCreatorOrContributor", S)
            ELSE Ret("Ok",
                     Emit([S EXCEPT !.disputes = Put(@, task_id, dispute_info),
                                    !.escrows =
                                       Put(@, task_id,
                                           [escrow EXCEPT !.status = "Disputed"])],
                          "dispute_initiated", task_id))

\* mutant of dispute_task: a Disputed escrow can be disputed again
dispute_task_repeatable(S, auth, t, disputing_party, task_id, reason) ==
    IF validate_contract_state(S) # "Ok" THEN Ret(validate_contract_state(S), S)
    ELSE IF validate_task_id(task_id) # "Ok" THEN Ret(validate_task_id(task_id), S)
    ELSE IF validate_address(disputing_party) # "Ok" THEN Ret("InvalidAddress", S)
    ELSE IF validate_dispute_reason(reason) # "Ok" THEN Ret(validate_dispute_reason(reason), S)
    ELSE IF require_auth(auth, disputing_party) # "Ok" THEN Ret("AuthTrap", S)
    ELSE IF ~task_exists(S, task_id) THEN Ret("TaskNotFound", S)
    ELSE LET escrow == S.escrows[task_id]
             is_creator == disputing_party = escrow.creator
             is_contributor == escrow.has_contributor
                               /\ disputing_party = escrow.contributor
             dispute_info == [task_id |-> task_id,
                              disputing_party |-> disputing_party,
                              reason |-> reason, initiated_at |-> t]
         IN IF ~escrow.has_contributor THEN Ret("NoContributorAssigned", S)
            ELSE IF escrow.status \in {"Resolved", "Cancelled"}
                 THEN Ret("TaskAlreadyResolved", S)
            ELSE IF ~is_creator /\ ~is_contributor THEN Ret("OnlyCreatorOrContributor", S)
            ELSE Ret("Ok",
                     Emit([S EXCEPT !.disputes = Put(@, task_id, dispute_info),
                                    !.escrows =
                                       Put(@, task_id,
                                           [escrow EXCEPT !.status = "Disputed",
                                                          !.disputed_at = t])],
                          "dispute_initiated", task_id))

dispute_task(S, auth, t, disputing_party, task_id, reason) ==
    IF validate_contract_state(S) # "Ok" THEN Ret(validate_contract_state(S), S)
    ELSE IF validate_task_id(task_id) # "Ok" THEN Ret(validate_task_id(task_id), S)
    ELSE IF validate_address(disputing_party) # "Ok" THEN Ret("InvalidAddress", S)
    ELSE IF validate_dispute_reason(reason) # "Ok" THEN Ret(validate_dispute_reason(reason), S)
    ELSE IF require_auth(auth, disputing_party) # "Ok" THEN Ret("AuthTrap", S)
    ELSE IF ~task_exists(S, task_id) THEN Ret("TaskNotFound", S)
    ELSE LET escrow == S.escrows[task_id]
             is_creator == disputing_party = escrow.creator
             is_contributor == escrow.has_contributor
                               /\ disputing_party = escrow.contributor
             dispute_info == [task_id |-> task_id,
                              disputing_party |-> disputing_party,
                              reason |-> reason, initiated_at |-> t]
         IN IF ~escrow.has_contributor THEN Ret("NoContributorAssigned", S)
            ELSE IF escrow.status \in {"Resolved", "Disputed", "Cancelled"}
                 THEN Ret("TaskAlreadyResolved", S)
            ELSE IF ~is_creator /\ ~is_contributor THEN Ret("OnlyCreatorOrContributor", S)
            ELSE Ret("Ok",
                     Emit([S EXCEPT !.disputes = Put(@, task_id, dispute_info),
                                    !.escrows =
                                       Put(@, task_id,
                                           [escrow EXCEPT !.status = "Disputed",
                                                          !.disputed_at = t])],
                          "dispute_initiated", task_id))

\* mutant of resolution_transfers: the result of the second transfer of a
\* partial payment is dropped
resolution_transfers_unchecked(S, auth, escrow, resolution) ==
    IF resolution.kind = "PayContributor"
    THEN transfer_usdc_from_contract(S, auth, escrow.contributor, escrow.bounty_amount)
    ELSE IF resolution.kind = "RefundCreator"
    THEN transfer_usdc_from_contract(S, auth, escrow.creator, escrow.bounty_amount)
    ELSE LET amount == resolution.amount
             first == transfer_usdc_from_contract(S, auth, escrow.contributor, amount)
             remaining == escrow.bounty_amount - amount
             second == transfer_usdc_from_contract(first.st, auth, escrow.creator, remaining)
         IN IF validate_partial_payment(amount, escrow.bounty_amount) # "Ok"
            THEN Ret(validate_partial_payment(amount, escrow.bounty_amount), S)
            ELSE IF first.res # "Ok" THEN first
            ELSE Ret("Ok", second.st)

\* mutant of resolution_transfers: the two shares of a partial payment go to
\* the wrong parties
resolution_transfers_swapped(S, auth, escrow, resolution) ==
    IF resolution.kind = "PayContributor"
    THEN transfer_usdc_from_contract(S, auth, escrow.contributor, escrow.bounty_amount)
    ELSE IF resolution.kind = "RefundCreator"
    THEN transfer_usdc_from_contract(S, auth, escrow.creator, escrow.bounty_amount)
    ELSE LET amount == resolution.amount
             first == transfer_usdc_from_contract(S, auth, escrow.creator, amount)
             remaining == escrow.bounty_amount - amount
         IN IF validate_partial_payment(amount, escrow.bounty_amount) # "Ok"
            THEN Ret(validate_partial_payment(amount, escrow.bounty_amount), S)
            ELSE IF first.res # "Ok" THEN first
            ELSE transfer_usdc_from_contract(first.st, auth, escrow.contributor, remaining)

\* the match over DisputeResolution: the transfers of the chosen policy
resolution_transfers(S, auth, escrow, resolution) ==
    IF resolution.kind = "PayContributor"
    THEN transfer_usdc_from_contract(S, auth, escrow.contributor, escrow.bounty_amount)
    ELSE IF resolution.kind = "RefundCreator"
    THEN transfer_usdc_from_contract(S, auth, escrow.creator, escrow.bounty_amount)
    ELSE LET amount == resolution.amount
             first == transfer_usdc_from_contract(S, auth, escrow.contributor, amount)
             remaining == escrow.bounty_amount - amount
         IN IF validate_partial_payment(amount, escrow.bounty_amount) # "Ok"
            THEN Ret(validate_partial_payment(amount, escrow.bounty_amount), S)
            ELSE IF first.res # "Ok" THEN first
            ELSE transfer_usdc_from_contract(first.st, auth, escrow.creator, remaining)

\* mutant of resolve_dispute: the status check is missing
resolve_dispute_any_status(S, auth, task_id, resolution) ==
    IF validate_contract_state(S) # "Ok" THEN Ret(validate_contract_state(S), S)
    ELSE IF validate_task_id(task_id) # "Ok" THEN Ret(validate_task_id(task_id), S)
    ELSE IF require_admin(S, auth) # "Ok" THEN Ret(require_admin(S, auth), S)
    ELSE IF ~task_exists(S, task_id) THEN Ret("TaskNotFound", S)
    ELSE LET escrow == S.escrows[task_id]
             tr == resolution_transfers(S, auth, escrow, resolution)
         IN IF ~escrow.has_contributor THEN Ret("NoContributorAssigned", S)
            ELSE IF tr.res # "Ok" THEN tr
            ELSE Ret("Ok",
                     Emit([tr.st EXCEPT !.escrows =
                              Put(@, task_id, [escrow EXCEPT !.status = "Resolved"])],
                          "dispute_resolved", task_id))

\* mutant of resolve_dispute: the DisputeInfo is removed with the resolution
resolve_dispute_drops_info(S, auth, task_id, resolution) ==
    IF validate_contract_state(S) # "Ok" THEN Ret(validate_contract_state(S), S)
    ELSE IF validate_task_id(task_id) # "Ok" THEN Ret(validate_task_id(task_id), S)
    ELSE IF require_admin(S, auth) # "Ok" THEN Ret(require_admin(S, auth), S)
    ELSE IF ~task_exists(S, task_id) THEN Ret("TaskNotFound", S)
    ELSE LET escrow == S.escrows[task_id]
             tr == resolution_transfers(S, auth, escrow, resolution)
         IN IF escrow.status # "Disputed" THEN Ret("TaskNotDisputed", S)
            ELSE IF ~escrow.has_contributor THEN Ret("NoContributorAssigned", S)
            ELSE IF tr.res # "Ok" THEN tr
            ELSE Ret("Ok",
                     Emit([tr.st EXCEPT !.escrows =
                              Put(@, task_id, [escrow EXCEPT !.status = "Resolved"]),
                                        !.disputes =
                              [k \in DOMAIN @ \ {task_id} |-> @[k]]],
                          "dispute_resolved", task_id))

resolve_dispute(S, auth, task_id, resolution) ==
    IF validate_contract_state(S) # "Ok" THEN Ret(validate_contract_state(S), S)
    ELSE IF validate_task_id(task_id) # "Ok" THEN Ret(validate_task_id(task_id), S)
    ELSE IF require_admin(S, auth) # "Ok" THEN Ret(require_admin(S, auth), S)
    ELSE IF ~task_exists(S, task_id) THEN Ret("TaskNotFound", S)
    ELSE LET escrow == S.escrows[task_id]
             tr == resolution_transfers(S, auth, escrow, resolution)
         IN IF escrow.status # "Disputed" THEN Ret("TaskNotDisputed", S)
            ELSE IF ~escrow.has_contributor THEN Ret("NoContributorAssigned", S)
            ELSE IF tr.res # "Ok" THEN tr
            ELSE Ret("Ok",
                     Emit([tr.st EXCEPT !.escrows =
                              Put(@, task_id, [escrow EXCEPT !.status = "Resolved"])],
                          "dispute_resolved", task_id))

\* mutant of refund: the Cancelled record is stored before the transfer
refund_persist_first(S, auth, task_id) ==
    IF validate_contract_state(S) # "Ok" THEN Ret(validate_contract_state(S), S)
    ELSE IF validate_task_id(task_id) # "Ok" THEN Ret(validate_task_id(task_id), S)
    ELSE IF ~task_exists(S, task_id) THEN Ret("TaskNotFound", S)
    ELSE LET escrow == S.escrows[task_id]
             stored == [S EXCEPT !.escrows =
                           Put(@, task_id, [escrow EXCEPT !.status = "Cancelled"])]
             tr == transfer_usdc_from_contract(stored, auth, escrow.creator,
                                               escrow.bounty_amount)
         IN IF require_auth(auth, escrow.creator) # "Ok" THEN Ret("AuthTrap", S)
            ELSE IF escrow.has_contributor THEN Ret("ContributorAlreadyAssigned", S)
            ELSE IF escrow.status # "Open" THEN Ret("InvalidTaskStatus", S)
            ELSE IF tr.res # "Ok" THEN tr
            ELSE Ret("Ok", Emit(tr.st, "refund_processed", task_id))

\* mutant of refund: the has_contributor check is missing
refund_no_contributor_check(S, auth, task_id) ==
    IF validate_contract_state(S) # "Ok" THEN Ret(validate_contract_state(S), S)
    ELSE IF validate_task_id(task_id) # "Ok" THEN Ret(validate_task_id(task_id), S)
    ELSE IF ~task_exists(S, task_id) THEN Ret("TaskNotFound", S)
    ELSE LET escrow == S.escrows[task_id]
             tr == transfer_usdc_from_contract(S, auth, escrow.creator,
                                               escrow.bounty_amount)
         IN IF require_auth(auth, escrow.creator) # "Ok" THEN Ret("AuthTrap", S)
            ELSE IF escrow.status # "Open" THEN Ret("InvalidTaskStatus", S)
            ELSE IF tr.res # "Ok" THEN tr
            ELSE Ret("Ok",
                     Emit([tr.st EXCEPT !.escrows =
                              Put(@, task_id, [escrow EXCEPT !.status = "Cancelled"])],
                          "refund_processed", task_id))

refund(S, auth, task_id) ==
    IF validate_contract_state(S) # "Ok" THEN Ret(validate_contract_state(S), S)
    ELSE IF validate_task_id(task_id) # "Ok" THEN Ret(validate_task_id(task_id), S)
    ELSE IF ~task_exists(S, task_id) THEN Ret("TaskNotFound", S)
    ELSE LET escrow == S.escrows[task_id]
             tr == transfer_usdc_from_contract(S, auth, escrow.creator,
                                               escrow.bounty_amount)
         IN IF require_auth(auth, escrow.creator) # "Ok" THEN Ret("AuthTrap", S)
            ELSE IF escrow.has_contributor THEN Ret("ContributorAlreadyAssigned", S)
            ELSE IF escrow.status # "Open" THEN Ret("InvalidTaskStatus", S)
            ELSE IF tr.res # "Ok" THEN tr
            ELSE Ret("Ok",
                     Emit([tr.st EXCEPT !.escrows =
                              Put(@, task_id, [escrow EXCEPT !.status = "Cancelled"])],
                          "refund_processed", task_id))

\* mutant of increase_bounty: the bounty is raised without taking the tokens
increase_bounty_no_transfer(S, auth, creator, task_id, amount) ==
    IF validate_contract_state(S) # "Ok" THEN Ret(validate_contract_state(S), S)
    ELSE IF require_auth(auth, creator) # "Ok" THEN Ret("AuthTrap", S)
    ELSE IF validate_task_id(task_id) # "Ok" THEN Ret(validate_task_id(task_id), S)
    ELSE IF validate_amount(amount) # "Ok" THEN Ret(validate_amount(amount), S)
    ELSE IF ~task_exists(S, task_id) THEN Ret("TaskNotFound", S)
    ELSE LET escrow == S.escrows[task_id]
         IN IF escrow.creator # creator THEN Ret("NotTaskCreator", S)
            ELSE IF escrow.status # "Open" THEN Ret("InvalidTaskStatus", S)
            ELSE Ret("Ok",
                     Emit([S EXCEPT !.escrows =
                              Put(@, task_id,
                                  [escrow EXCEPT !.bounty_amount = @ + amount])],
                          "bounty_increased", task_id))

\* increase_bounty and decrease_bounty: the handlers are not part of lib.rs;
\* they follow the operations table (status Open, caller is the creator,
\* amount valid, remaining bounty at least the minimum) and the error codes
\* of tests/test_bounty_management.rs.
increase_bounty(S, auth, creator, task_id, amount) ==
    IF validate_contract_state(S) # "Ok" THEN Ret(validate_contract_state(S), S)
    ELSE IF require_auth(auth, creator) # "Ok" THEN Ret("AuthTrap", S)
    ELSE IF validate_task_id(task_id) # "Ok" THEN Ret(validate_task_id(task_id), S)
    ELSE IF validate_amount(amount) # "Ok" THEN Ret(validate_amount(amount), S)
    ELSE IF ~task_exists(S, task_id) THEN Ret("TaskNotFound", S)
    ELSE LET escrow == S.escrows[task_id]
             tr == transfer_usdc_to_contract(S, auth, creator, amount)
         IN IF escrow.creator # creator THEN Ret("NotTaskCreator", S)
            ELSE IF escrow.status # "Open" THEN Ret("InvalidTaskStatus", S)
            ELSE IF tr.res # "Ok" THEN tr
            ELSE Ret("Ok",
                     Emit([tr.st EXCEPT !.escrows =
                              Put(@, task_id,
                                  [escrow EXCEPT !.bounty_amount = @ + amount])],
                          "bounty_increased", task_id))

\* mutant of decrease_bounty: the check of the remaining bounty is missing
decrease_bounty_no_floor(S, auth, creator, task_id, amount) ==
    IF validate_contract_state(S) # "Ok" THEN Ret(validate_contract_state(S), S)
    ELSE IF require_auth(auth, creator) # "Ok" THEN Ret("AuthTrap", S)
    ELSE IF validate_task_id(task_id) # "Ok" THEN Ret(validate_task_id(task_id), S)
    ELSE IF validate_amount(amount) # "Ok" THEN Ret(validate_amount(amount), S)
    ELSE IF ~task_exists(S, task_id) THEN Ret("TaskNotFound", S)
    ELSE LET escrow == S.escrows[task_id]
             tr == transfer_usdc_from_contract(S, auth, creator, amount)
         IN IF escrow.creator # creator THEN Ret("NotTaskCreator", S)
            ELSE IF escrow.status # "Open" THEN Ret("InvalidTaskStatus", S)
            ELSE IF tr.res # "Ok" THEN tr
            ELSE Ret("Ok",
                     Emit([tr.st EXCEPT !.escrows =
                              Put(@, task_id,
                                  [escrow EXCEPT !.bounty_amount = @ - amount])],
                          "bounty_decreased", task_id))

decrease_bounty(S, auth, creator, task_id, amount) ==
    IF validate_contract_state(S) # "Ok" THEN Ret(validate_contract_state(S), S)
    ELSE IF require_auth(auth, creator) # "Ok" THEN Ret("AuthTrap", S)
    ELSE IF validate_task_id(task_id) # "Ok" THEN Ret(validate_task_id(task_id), S)
    ELSE IF validate_amount(amount) # "Ok" THEN Ret(validate_amount(amount), S)
    ELSE IF ~task_exists(S, task_id) THEN Ret("TaskNotFound", S)
    ELSE LET escrow == S.escrows[task_id]
             tr == transfer_usdc_from_contract(S, auth, creator, amount)
         IN IF escrow.creator # creator THEN Ret("NotTaskCreator", S)
            ELSE IF escrow.status # "Open" THEN Ret("InvalidTaskStatus", S)
            ELSE IF validate_amount(escrow.bounty_amount - amount) # "Ok"
                 THEN Ret("InvalidAmount", S)
            ELSE IF tr.res # "Ok" THEN tr
            ELSE Ret("Ok",
                     Emit([tr.st EXCEPT !.escrows =
                              Put(@, task_id,
                                  [escrow EXCEPT !.bounty_amount = @ - amount])],
                          "bounty_decreased", task_id))


\* -------------------------------------------------------------------- reads
\* The read operations return a value next to the result and the ledger.
Val(r, v, S) == [res |-> r, val |-> v, st |-> S]

get_escrow(S, task_id) ==
    IF validate_task_id(task_id) # "Ok" THEN Val(validate_task_id(task_id), None, S)
    ELSE IF task_id \notin DOMAIN S.escrows THEN Val("TaskNotFound", None, S)
    ELSE Val("Ok", S.escrows[task_id], S)

get_task_count(S) == Val("Ok", S.task_count, S)

\* mutant of get_dispute_info: the entry is taken out of storage
get_dispute_info_taking(S, task_id) ==
    IF validate_contract_state(S) # "Ok" THEN Val(validate_contract_state(S), None, S)
    ELSE IF validate_task_id(task_id) # "Ok" THEN Val(validate_task_id(task_id), None, S)
    ELSE IF ~task_exists(S, task_id) THEN Val("TaskNotFound", None, S)
    ELSE IF task_id \notin DOMAIN S.disputes THEN Val("TaskNotDisputed", None, S)
    ELSE Val("Ok", S.disputes[task_id],
             [S EXCEPT !.disputes = [k \in DOMAIN @ \ {task_id} |-> @[k]]])

get_dispute_info(S, task_id) ==
    IF validate_contract_state(S) # "Ok" THEN Val(validate_contract_state(S), None, S)
    ELSE IF validate_task_id(task_id) # "Ok" THEN Val(validate_task_id(task_id), None, S)
    ELSE IF ~task_exists(S, task_id) THEN Val("TaskNotFound", None, S)
    ELSE IF task_id \notin DOMAIN S.disputes THEN Val("TaskNotDisputed", None, S)
    ELSE Val("Ok", S.disputes[task_id], S)

get_usdc_balance(S, address) ==
    IF validate_contract_state(S) # "Ok" THEN Val(validate_contract_state(S), None, S)
    ELSE IF validate_address(address) # "Ok" THEN Val("InvalidAddress", None, S)
    ELSE IF get_usdc_token_internal(S) # "Ok" THEN Val(get_usdc_token_internal(S), None, S)
    ELSE Val("Ok", S.balance[S.usdc_token][address], S)

has_sufficient_usdc_balance(S, address, required_amount) ==
    IF validate_contract_state(S) # "Ok" THEN Val(validate_contract_state(S), None, S)
    ELSE IF validate_address(address) # "Ok" THEN Val("InvalidAddress", None, S)
    ELSE IF validate_amount(required_amount) # "Ok"
         THEN Val(validate_amount(required_amount), None, S)
    ELSE LET current_balance == get_usdc_balance(S, address)
         IN IF current_balance.res # "Ok" THEN current_balance
            ELSE Val("Ok", current_balance.val >= required_amount, current_balance.st)

get_contract_usdc_balance(S) ==
    IF validate_contract_state(S) # "Ok" THEN Val(validate_contract_state(S), None, S)
    ELSE get_usdc_balance(S, Contract)

\* ------------------------------------------------------------------- host
PayoutOps == {"approve_completion", "resolve_dispute", "refund"}

\* tokens (of every token contract) that left the contract's balance
Outflow(S) ==
    LET out(tok) == balance[tok][Contract] - S.balance[tok][Contract]
    IN out("usdcA") + out("usdcB")

\* One contract invocation: the host keeps the ledger the handler produced
\* when it returned Ok and restores the previous ledger otherwise.
Commit(r) == IF r.res = "Ok" THEN r.st ELSE State

Invoke(call, r) ==
    IF r.res = "Ok"
    THEN /\ admin' = r.st.admin
         /\ usdc_token' = r.st.usdc_token
         /\ task_count' = r.st.task_count
         /\ escrows' = r.st.escrows
         /\ disputes' = r.st.disputes
         /\ balance' = r.st.balance
         /\ wasm' = r.st.wasm
         /\ now' = now
         /\ paused' = r.st.paused
         /\ paid' = IF call.op \in PayoutOps
                    THEN [paid EXCEPT ![call.task_id] = @ + Outflow(r.st)]
                    ELSE paid
         /\ UNCHANGED <<input, output>>
    ELSE UNCHANGED vars

\* no validation helper is under examination
NoInput == [fn |-> "none", partial |-> 0, total |-> 0, amount |-> Limbs(0)]

Init ==
    /\ admin = None
    /\ usdc_token = None
    /\ task_count = 0
    /\ escrows = <<>>
    /\ disputes = <<>>
    /\ balance = [tok \in Tokens |->
                    [h \in Holders |-> IF h \in Users THEN InitBalance ELSE 0]]
    /\ wasm = "wasm0"
    /\ now = 0
    /\ paused = FALSE
    /\ paid = [id \in ValidTaskIds |-> 0]
    /\ input = NoInput
    /\ output = None

Initialize ==
    \E a \in {"carol"}, tok \in {"usdcA"} :
        Invoke([op |-> "initialize", new_admin |-> a, token |-> tok],
               initialize(State, a, tok))

SetAdmin ==
    \E auth \in Signers, a \in {"carol", "alice"} :
        Invoke([op |-> "set_admin", new_admin |-> a],
               set_admin(State, auth, a))

UpdateUsdcToken ==
    \E auth \in Signers, tok \in Tokens :
        Invoke([op |-> "update_usdc_token", token |-> tok],
               update_usdc_token(State, auth, tok))

Upgrade ==
    \E auth \in Signers, h \in WasmHashes :
        Invoke([op |-> "upgrade", hash |-> h],
               upgrade(State, auth, h))

CreateEscrow ==
    /\ task_count < MaxTasks
    /\ \E auth \in Signers, creator \in Creators, task_id \in ValidTaskIds,
          url \in {Url}, amount \in CreateAmounts :
        Invoke([op |-> "create_escrow", creator |-> creator,
                task_id |-> task_id, amount |-> amount],
               create_escrow(State, auth, now, creator, task_id, url, amount))

AssignContributor ==
    \E auth \in Signers, task_id \in ValidTaskIds, contributor \in Users :
        Invoke([op |-> "assign_contributor", task_id |-> task_id,
                contributor |-> contributor],
               assign_contributor(State, auth, task_id, contributor))

CompleteTask ==
    \E auth \in Signers, task_id \in ValidTaskIds :
        Invoke([op |-> "complete_task", task_id |-> task_id],
               complete_task(State, auth, now, task_id))

ApproveCompletion ==
    \E auth \in Signers, task_id \in ValidTaskIds :
        Invoke([op |-> "approve_completion", task_id |-> task_id],
               approve_completion(State, auth, task_id))

DisputeTask ==
    \E auth \in Signers, party \in Addresses, task_id \in ValidTaskIds, reason \in {Reason} :
        Invoke([op |-> "dispute_task", party |-> party,
                task_id |-> task_id],
               dispute_task(State, auth, now, party, task_id, reason))

ResolveDispute ==
    \E auth \in Signers, task_id \in ValidTaskIds, resolution \in Resolutions :
        Invoke([op |-> "resolve_dispute", task_id |-> task_id,
                resolution |-> resolution],
               resolve_dispute(State, auth, task_id, resolution))

Refund ==
    \E auth \in Signers, task_id \in ValidTaskIds :
        Invoke([op |-> "refund", task_id |-> task_id],
               refund(State, auth, task_id))

IncreaseBounty ==
    \E auth \in Signers, creator \in Creators, task_id \in ValidTaskIds, amount \in DeltaAmounts :
        Invoke([op |-> "increase_bounty", creator |-> creator,
                task_id |-> task_id, amount |-> amount],
               increase_bounty(State, auth, creator, task_id, amount))

DecreaseBounty ==
    \E auth \in Signers, creator \in Creators, task_id \in ValidTaskIds, amount \in DeltaAmounts :
        Invoke([op |-> "decrease_bounty", creator |-> creator,
                task_id |-> task_id, amount |-> amount],
               decrease_bounty(State, auth, creator, task_id, amount))

Next ==
    \/ Initialize
    \/ SetAdmin
    \/ UpdateUsdcToken
    \/ Upgrade
    \/ CreateEscrow
    \/ AssignContributor
    \/ CompleteTask
    \/ ApproveCompletion
    \/ DisputeTask
    \/ ResolveDispute
    \/ Refund
    \/ IncreaseBounty
    \/ DecreaseBounty

Spec == Init /\ [][Next]_vars

\* The contract together with its pause switch.
SetPaused ==
    \E auth \in Signers, flag \in BOOLEAN :
        Invoke([op |-> "set_paused", flag |-> flag],
               set_paused(State, auth, flag))

NextPause ==
    \/ Initialize
    \/ SetAdmin
    \/ UpdateUsdcToken
    \/ Upgrade
    \/ SetPaused
    \/ CreateEscrow
    \/ AssignContributor
    \/ CompleteTask
    \/ ApproveCompletion
    \/ DisputeTask
    \/ ResolveDispute
    \/ Refund
    \/ IncreaseBounty
    \/ DecreaseBounty

SpecPause == Init /\ [][NextPause]_vars

\* The contract under a ledger clock: the ledger timestamp advances between
\* invocations while the admin, the token address and the code stay as
\* initialized.
Tick ==
    /\ now < MaxTime
    /\ now' = now + 1
    /\ UNCHANGED <<admin, usdc_token, task_count, escrows, disputes, balance,
                   wasm, paused, paid, input, output>>

NextClock ==
    \/ Tick
    \/ Initialize
    \/ CreateEscrow
    \/ AssignContributor
    \/ CompleteTask
    \/ ApproveCompletion
    \/ DisputeTask
    \/ ResolveDispute
    \/ Refund
    \/ IncreaseBounty
    \/ DecreaseBounty

SpecClock == Init /\ [][NextClock]_vars

\* The contract with parties that act: an escrow operation that stays
\* possible is eventually carried out by the creator, the contributor or the
\* admin.  Nothing obliges anybody to create escrows or to administer.
Fairness ==
    /\ WF_vars(AssignContributor)
    /\ WF_vars(CompleteTask)
    /\ WF_vars(ApproveCompletion)
    /\ WF_vars(DisputeTask)
    /\ WF_vars(ResolveDispute)
    /\ WF_vars(Refund)

SpecLive == Init /\ [][Next]_vars /\ Fairness

\* The amount validators applied to chosen arguments: the bounties and
\* partial payments around the 1% and the minimum-amount thresholds, and the
\* amounts around both ends of the accepted range.
Totals == {100000, 1000000, 9999999, 10000000, 10000050, 100000000, 1000000000}
PartialsOf(total) ==
    {-1, 0, 99999, 100000, 100001,
     total \div PERCENT - 1, total \div PERCENT, total \div PERCENT + 1,
     total - total \div PERCENT - 1, total - total \div PERCENT,
     total - total \div PERCENT + 1, total - 1, total, total + 1}
WideAmounts ==
    {Limbs(a) : a \in Amounts \cup {1, 99999, 100001, 99999999, 100000000}}
    \cup {[hi |-> 99999999, lo |-> 99999999], [hi |-> MAX_AMOUNT_HI, lo |-> 0],
          [hi |-> MAX_AMOUNT_HI, lo |-> 1], [hi |-> MAX_AMOUNT_HI + 1, lo |-> 0],
          [hi |-> -MAX_AMOUNT_HI, lo |-> 0]}
ValidatorInputs ==
    {[fn |-> "validate_partial_payment", partial |-> p, total |-> t,
      amount |-> Limbs(0)] : p \in UNION {PartialsOf(t0) : t0 \in Totals},
                             t \in Totals}
    \cup {[fn |-> "validate_amount", partial |-> 0, total |-> 0, amount |-> x] :
            x \in WideAmounts}

InitValidate ==
    /\ admin = None
    /\ usdc_token = None
    /\ task_count = 0
    /\ escrows = <<>>
    /\ disputes = <<>>
    /\ balance = [tok \in Tokens |->
                    [h \in Holders |-> IF h \in Users THEN InitBalance ELSE 0]]
    /\ wasm = "wasm0"
    /\ now = 0
    /\ paused = FALSE
    /\ paid = [id \in ValidTaskIds |-> 0]
    /\ input \in ValidatorInputs
    /\ output = None

ValidatePartialPayment ==
    /\ input.fn = "validate_partial_payment"
    /\ output = None
    /\ output' = validate_partial_payment(input.partial, input.total)
    /\ UNCHANGED <<admin, usdc_token, task_count, escrows, disputes, balance,
                   wasm, now, paused, paid, input>>

ValidateAmount ==
    /\ input.fn = "validate_amount"
    /\ output = None
    /\ output' = validate_amount_limbs(input.amount)
    /\ UNCHANGED <<admin, usdc_token, task_count, escrows, disputes, balance,
                   wasm, now, paused, paid, input>>

NextValidate ==
    \/ Initialize
    \/ ValidatePartialPayment
    \/ ValidateAmount

SpecValidate == InitValidate /\ [][NextValidate]_vars

\* ================================================================= claims
Terminal == {"Resolved", "Cancelled"}

Edges ==
    {<<"Open", "InProgress">>, <<"InProgress", "Completed">>,
     <<"Completed", "Resolved">>, <<"InProgress", "Disputed">>,
     <<"Completed", "Disputed">>, <<"Disputed", "Resolved">>,
     <<"Open", "Cancelled">>}

Admins == IF admin = None THEN {} ELSE {admin}

\* tokens of every token contract held by the escrow contract
ContractHoldings == balance["usdcA"][Contract] + balance["usdcB"][Contract]

RECURSIVE SumBounty(_, _)
SumBounty(ids, esc) ==
    IF ids = {} THEN 0
    ELSE LET id == CHOOSE x \in ids : TRUE
         IN (IF esc[id].status \in Terminal THEN 0 ELSE esc[id].bounty_amount)
            + SumBounty(ids \ {id}, esc)

\* C1 - lifecycle monotonicity: the status of every escrow changes only along
\* Open->InProgress, InProgress->Completed, Completed->Resolved,
\* InProgress|Completed->Disputed, Disputed->Resolved, Open->Cancelled, and
\* approve_completion never succeeds on an Open or InProgress escrow.
C1_LifecycleMonotonic ==
    [][/\ \A id \in DOMAIN escrows :
             \/ escrows'[id].status = escrows[id].status
             \/ <<escrows[id].status, escrows'[id].status>> \in Edges
       /\ \A id \in DOMAIN escrows, auth \in AuthSets :
             escrows[id].status \in {"Open", "InProgress"}
                => approve_completion(State, auth, id).res # "Ok"]_vars

\* C2 - conservation of funds per escrow: the payout operations move out of
\* the contract, for one task, exactly the bounty of its terminal transition
\* and only once; on a terminal escrow every payout operation fails.
C2_PaidExactlyOnce ==
    \A id \in DOMAIN escrows :
        /\ paid[id] <= escrows[id].bounty_amount
        /\ escrows[id].status \in Terminal =>
              /\ paid[id] = escrows[id].bounty_amount
              /\ \A auth \in AuthSets :
                    /\ approve_completion(State, auth, id).res # "Ok"
                    /\ refund(State, auth, id).res # "Ok"
                    /\ \A res \in AllResolutions :
                          resolve_dispute(State, auth, id, res).res # "Ok"

\* C3 - custody: the tokens held by the contract equal the sum of
\* bounty_amount over the escrows that are neither Resolved nor Cancelled.
C3_Custody == ContractHoldings = SumBounty(DOMAIN escrows, escrows)

\* C4 - terminal states: the record of a Resolved or Cancelled escrow never
\* changes again, and no operation on it succeeds.
C4_TerminalFrozen ==
    [][\A id \in DOMAIN escrows :
          escrows[id].status \in Terminal =>
             /\ escrows'[id] = escrows[id]
             /\ \A auth \in AuthSets, c \in Users :
                   /\ assign_contributor(State, auth, id, c).res # "Ok"
                   /\ complete_task(State, auth, now, id).res # "Ok"
                   /\ approve_completion(State, auth, id).res # "Ok"
                   /\ refund(State, auth, id).res # "Ok"
                   /\ \A p \in Addresses :
                         dispute_task(State, auth, now, p, id, Reason).res # "Ok"
                   /\ \A res \in Resolutions :
                         resolve_dispute(State, auth, id, res).res # "Ok"
                   /\ \A a \in DeltaAmounts :
                         /\ increase_bounty(State, auth, c, id, a).res # "Ok"
                         /\ decrease_bounty(State, auth, c, id, a).res # "Ok"]_vars

\* C5 - assign_contributor succeeds only on an Open escrow without
\* contributor, then stores the contributor, sets the flag and moves the
\* status to InProgress; in every other status it fails and changes nothing.
C5_AssignOnlyOpen ==
    \A id \in DOMAIN escrows, auth \in AuthSets, c \in Addresses :
        LET r == assign_contributor(State, auth, id, c)
            e == escrows[id]
        IN /\ r.res = "Ok" =>
                /\ e.status = "Open" /\ ~e.has_contributor
                /\ r.st.escrows[id] = [e EXCEPT !.contributor = c,
                                                !.has_contributor = TRUE,
                                                !.status = "InProgress"]
           /\ e.status # "Open" => r.res # "Ok" /\ r.st.escrows = escrows

\* the call did not succeed and the handler returned with the ledger untouched
Denied(r) == r.res # "Ok" /\ r.st = State

\* C6 - authorization completeness: without the authorization of its
\* designated identity (creator, assigned contributor, named disputing party,
\* current admin) a mutating operation fails and changes nothing, whatever
\* the other inputs are.
C6_AuthorizationComplete ==
    \A auth \in AuthSets :
        /\ \A c \in Users, id \in ValidTaskIds, a \in CreateAmounts :
              c \notin auth => Denied(create_escrow(State, auth, now, c, id, Url, a))
        /\ \A id \in DOMAIN escrows :
              LET e == escrows[id]
              IN /\ e.creator \notin auth =>
                      /\ \A c \in Users : Denied(assign_contributor(State, auth, id, c))
                      /\ Denied(approve_completion(State, auth, id))
                      /\ Denied(refund(State, auth, id))
                 /\ e.contributor \notin auth => Denied(complete_task(State, auth, now, id))
                 /\ \A p \in Addresses :
                       p \notin auth => Denied(dispute_task(State, auth, now, p, id, Reason))
                 /\ admin \notin auth =>
                       \A res \in Resolutions : Denied(resolve_dispute(State, auth, id, res))
        /\ admin \notin auth =>
              /\ \A a \in Addresses : Denied(set_admin(State, auth, a))
              /\ \A tok \in Tokens : Denied(update_usdc_token(State, auth, tok))
              /\ \A h \in WasmHashes : Denied(upgrade(State, auth, h))

\* a rotated admin, and a Completed and a Disputed escrow whose next step
\* succeeds with the designated identity and is refused to everybody else
C6_Witness ==
    /\ admin = "alice"
    /\ \E id \in DOMAIN escrows :
          /\ escrows[id].status = "Completed"
          /\ approve_completion(State, {escrows[id].creator}, id).res = "Ok"
          /\ approve_completion(State, Addresses \ {escrows[id].creator}, id).res = "AuthTrap"
    /\ \E id \in DOMAIN escrows :
          /\ escrows[id].status = "Disputed"
          /\ resolve_dispute(State, {admin}, id, [kind |-> "PayContributor", amount |-> 0]).res = "Ok"
          /\ resolve_dispute(State, Addresses \ {admin}, id,
                             [kind |-> "PayContributor", amount |-> 0]).res = "AuthTrap"

Storage(S) ==
    [admin |-> S.admin, usdc_token |-> S.usdc_token, task_count |-> S.task_count,
     escrows |-> S.escrows, disputes |-> S.disputes, wasm |-> S.wasm,
     paused |-> S.paused]

\* a failed call: no storage entry was written and no event published before
\* the handler returned, and the ledger the host keeps is the previous one
RolledBack(r) ==
    r.res # "Ok" =>
        /\ Storage(r.st) = Storage(State)
        /\ r.st.events = <<>>
        /\ Commit(r) = State

\* C7 - whole-call rollback: a call that returns an error leaves the admin,
\* the token address, task_count, every TaskEscrow and DisputeInfo record and
\* every balance as they were; the handlers write the record only after the
\* transfers, so a failed transfer never leaves a mutated record.
C7_WholeCallRollback ==
    \A auth \in Signers :
        /\ \A a \in Addresses, tok \in Tokens :
              /\ RolledBack(initialize(State, a, tok))
              /\ RolledBack(set_admin(State, auth, a))
              /\ RolledBack(update_usdc_token(State, auth, tok))
        /\ \A h \in WasmHashes : RolledBack(upgrade(State, auth, h))
        /\ \A id \in ValidTaskIds \cup {ShortId} :
              /\ \A c \in Users, a \in {0, 100000, 900000, 1000000} :
                    /\ \A url \in Urls : RolledBack(create_escrow(State, auth, now, c, id, url, a))
                    /\ RolledBack(increase_bounty(State, auth, c, id, a))
                    /\ RolledBack(decrease_bounty(State, auth, c, id, a))
              /\ \A c \in Users : RolledBack(assign_contributor(State, auth, id, c))
              /\ RolledBack(complete_task(State, auth, now, id))
              /\ RolledBack(approve_completion(State, auth, id))
              /\ \A p \in Addresses, reason \in Reasons :
                    RolledBack(dispute_task(State, auth, now, p, id, reason))
              /\ \A res \in AllResolutions : RolledBack(resolve_dispute(State, auth, id, res))
              /\ RolledBack(refund(State, auth, id))

\* the token address was rotated while an escrow is Open: its refund reaches
\* the transfer and the transfer fails; and a partial payment whose second
\* transfer fails after the first one was made
C7_Witness ==
    /\ \E id \in DOMAIN escrows :
          /\ escrows[id].status = "Open"
          /\ refund(State, {escrows[id].creator}, id).res = "InsufficientBalance"
    /\ \E id \in DOMAIN escrows, a \in Amounts :
          LET r == resolve_dispute(State, {admin}, id, [kind |-> "PartialPayment", amount |-> a])
          IN r.res # "Ok" /\ r.st.balance # balance

\* C8 - resolve_dispute with PartialPayment(amount) marks the escrow Resolved
\* only if both transfers were made; when the second transfer fails after the
\* first succeeded the record is not marked Resolved.
C8_PartialResolvedOnlyIfBothPaid ==
    \A id \in DOMAIN escrows, auth \in AuthSets, a \in Amounts :
        LET e == escrows[id]
            r == resolve_dispute(State, auth, id, [kind |-> "PartialPayment", amount |-> a])
            moved(h) == r.st.balance[usdc_token][h] - balance[usdc_token][h]
        IN e.status = "Disputed" =>
              /\ r.st.escrows[id].status = "Resolved" =>
                    /\ r.res = "Ok"
                    /\ moved(Contract) = 0 - e.bounty_amount
                    /\ IF e.contributor = e.creator
                       THEN moved(e.creator) = e.bounty_amount
                       ELSE /\ moved(e.contributor) = a
                            /\ moved(e.creator) = e.bounty_amount - a
              /\ r.res # "Ok" => r.st.escrows[id] = e

\* a Disputed escrow and an accepted partial amount for which the contributor
\* is paid and the transfer of the remainder to the creator then fails
C8_Witness ==
    \E id \in DOMAIN escrows, a \in Amounts :
        LET e == escrows[id]
            r == resolve_dispute(State, {admin}, id, [kind |-> "PartialPayment", amount |-> a])
        IN /\ e.status = "Disputed"
           /\ validate_partial_payment(a, e.bounty_amount) = "Ok"
           /\ r.res # "Ok"
           /\ r.st.balance[usdc_token][Contract] = balance[usdc_token][Contract] - a

\* what a successful resolve_dispute moves, in the current token, seen from a
\* Disputed escrow
Received(r, h) == r.st.balance[usdc_token][h] - balance[usdc_token][h]

FullPaymentsExact(id, auth) ==
    LET e == escrows[id]
        pay == resolve_dispute(State, auth, id, [kind |-> "PayContributor", amount |-> 0])
        back == resolve_dispute(State, auth, id, [kind |-> "RefundCreator", amount |-> 0])
    IN /\ pay.res = "Ok" =>
             /\ Received(pay, e.contributor) = e.bounty_amount
             /\ \A h \in Addresses \ {e.contributor} : Received(pay, h) = 0
       /\ back.res = "Ok" =>
             /\ Received(back, e.creator) = e.bounty_amount
             /\ \A h \in Addresses \ {e.creator} : Received(back, h) = 0

\* C9 (as stated) - after a successful PartialPayment(amount) the contributor
\* has received exactly amount and the creator exactly bounty_amount - amount;
\* PayContributor changes only the contributor's balance and RefundCreator
\* only the creator's.
C9_PartialExact_Original ==
    \A id \in DOMAIN escrows, auth \in AuthSets :
        /\ FullPaymentsExact(id, auth)
        /\ \A a \in Amounts :
              LET e == escrows[id]
                  r == resolve_dispute(State, auth, id, [kind |-> "PartialPayment", amount |-> a])
              IN r.res = "Ok" =>
                    /\ Received(r, e.contributor) = a
                    /\ Received(r, e.creator) = e.bounty_amount - a
                    /\ Received(r, e.contributor) + Received(r, e.creator) = e.bounty_amount

\* C9 (amended) - the same, for an escrow whose contributor is not its
\* creator; when the creator assigned itself, that one address receives the
\* two shares, bounty_amount in total.  Nobody else's balance changes.
C9_PartialExact ==
    \A id \in DOMAIN escrows, auth \in AuthSets :
        /\ FullPaymentsExact(id, auth)
        /\ \A a \in Amounts :
              LET e == escrows[id]
                  r == resolve_dispute(State, auth, id, [kind |-> "PartialPayment", amount |-> a])
              IN r.res = "Ok" =>
                    /\ \A h \in Addresses \ {e.contributor, e.creator} : Received(r, h) = 0
                    /\ Received(r, Contract) = 0 - e.bounty_amount
                    /\ IF e.contributor = e.creator
                       THEN Received(r, e.creator) = e.bounty_amount
                       ELSE /\ Received(r, e.contributor) = a
                            /\ Received(r, e.creator) = e.bounty_amount - a

\* a dispute between two different parties was resolved 600000 / 400000
C9_Witness ==
    \E id \in DOMAIN escrows :
        /\ escrows[id].status = "Resolved"
        /\ id \in DOMAIN disputes
        /\ escrows[id].creator = "alice" /\ escrows[id].contributor = "bob"
        /\ escrows[id].bounty_amount = 1000000
        /\ balance["usdcA"]["bob"] = InitBalance + 600000
        /\ balance["usdcA"]["alice"] = InitBalance - 1000000 + 400000

\* C10 (as stated) - has_contributor = FALSE implies status Open, and
\* has_contributor = TRUE implies status InProgress, Completed, Disputed or
\* Resolved.
C10_ContributorFlag_Original ==
    \A id \in DOMAIN escrows :
        /\ ~escrows[id].has_contributor => escrows[id].status = "Open"
        /\ escrows[id].has_contributor =>
              escrows[id].status \in {"InProgress", "Completed", "Disputed", "Resolved"}

\* C10 (amended) - has_contributor = FALSE implies status Open or Cancelled
\* (a refunded escrow never had a contributor), and has_contributor = TRUE
\* implies status InProgress, Completed, Disputed or Resolved.
C10_ContributorFlag ==
    \A id \in DOMAIN escrows :
        /\ ~escrows[id].has_contributor => escrows[id].status \in {"Open", "Cancelled"}
        /\ escrows[id].has_contributor =>
              escrows[id].status \in {"InProgress", "Completed", "Disputed", "Resolved"}

\* one escrow was refunded and another one was paid out
C10_Witness ==
    /\ \E id \in DOMAIN escrows :
          escrows[id].status = "Cancelled" /\ ~escrows[id].has_contributor
    /\ \E id \in DOMAIN escrows :
          escrows[id].status = "Resolved" /\ escrows[id].has_contributor

\* C11 - one escrow per task id: create_escrow on a task id that already has
\* a record, whatever its status, fails and leaves the balances, the record
\* and task_count as they were; with the creator's authorization and valid
\* inputs the error is TaskAlreadyExists.
C11_OneEscrowPerTaskId ==
    \A id \in DOMAIN escrows, auth \in Signers, c \in Users, url \in Urls, a \in Amounts :
        LET r == create_escrow(State, auth, now, c, id, url, a)
        IN /\ Denied(r)
           /\ Commit(r) = State
           /\ (c \in auth /\ validate_issue_url(url) = "Ok" /\ validate_amount(a) = "Ok")
                 => r.res = "TaskAlreadyExists"

\* a Resolved and a Cancelled escrow whose creator could fund a new escrow:
\* creating either id again is refused with TaskAlreadyExists
C11_Witness ==
    /\ \E id \in DOMAIN escrows : escrows[id].status = "Resolved"
    /\ \E id \in DOMAIN escrows : escrows[id].status = "Cancelled"
    /\ \A id \in DOMAIN escrows :
          /\ balance[usdc_token][escrows[id].creator] >= 100000
          /\ create_escrow(State, {escrows[id].creator}, now, escrows[id].creator,
                           id, Url, 100000).res = "TaskAlreadyExists"

\* the ledgers the operations other than increase_bounty and decrease_bounty
\* return when called on task id with auth
OtherResults(auth, id) ==
    {create_escrow(State, auth, now, c, id, Url, a) : c \in Users, a \in CreateAmounts}
    \cup {assign_contributor(State, auth, id, c) : c \in Users}
    \cup {complete_task(State, auth, now, id), approve_completion(State, auth, id),
          refund(State, auth, id)}
    \cup {dispute_task(State, auth, now, p, id, Reason) : p \in Addresses}
    \cup {resolve_dispute(State, auth, id, res) : res \in Resolutions}
    \cup {set_admin(State, auth, a) : a \in Addresses}
    \cup {update_usdc_token(State, auth, tok) : tok \in Tokens}
    \cup {upgrade(State, auth, h) : h \in WasmHashes}
    \cup {set_paused(State, auth, flag) : flag \in BOOLEAN}

\* the ledgers all operations return when called on task id with auth
Results(auth, id) ==
    OtherResults(auth, id)
    \cup {increase_bounty(State, auth, c, id, a) : c \in Users, a \in DeltaAmounts}
    \cup {decrease_bounty(State, auth, c, id, a) : c \in Users, a \in DeltaAmounts}

\* C12 - refund succeeds only on an Open escrow without contributor, then
\* moves the whole bounty_amount from the contract to the creator and sets
\* the status Cancelled; an escrow that has a contributor keeps it after
\* every successful operation, and refund on it fails and changes nothing,
\* with ContributorAlreadyAssigned when the creator authorized the call.
C12_RefundOnlyOpen ==
    \A id \in DOMAIN escrows :
        LET e == escrows[id]
        IN /\ \A auth \in AuthSets :
                 LET r == refund(State, auth, id)
                 IN /\ r.res = "Ok" =>
                         /\ e.status = "Open" /\ ~e.has_contributor
                         /\ r.st.balance[usdc_token][e.creator]
                               = balance[usdc_token][e.creator] + e.bounty_amount
                         /\ r.st.balance[usdc_token][Contract]
                               = balance[usdc_token][Contract] - e.bounty_amount
                         /\ r.st.escrows
                               = Put(escrows, id, [e EXCEPT !.status = "Cancelled"])
                    /\ e.has_contributor =>
                         /\ Denied(r)
                         /\ e.creator \in auth => r.res = "ContributorAlreadyAssigned"
           /\ e.has_contributor =>
                 \A auth \in Signers, other \in ValidTaskIds :
                     \A r \in Results(auth, other) :
                         r.res = "Ok" => r.st.escrows[id].has_contributor

\* one escrow was refunded (Cancelled, its bounty paid out) and on another
\* one, with a contributor, the creator's refund is refused
C12_Witness ==
    /\ \E id \in DOMAIN escrows :
          /\ escrows[id].status = "Cancelled"
          /\ paid[id] = escrows[id].bounty_amount
    /\ \E id \in DOMAIN escrows :
          /\ escrows[id].status \in {"Completed", "Disputed", "Resolved"}
          /\ refund(State, {escrows[id].creator}, id).res = "ContributorAlreadyAssigned"

\* a refund of task id succeeded earlier: the payout operations moved tokens
\* out for it although it is not Resolved, or more than the bounty of a
\* Resolved one
RefundedBefore(id) ==
    /\ paid[id] > 0
    /\ escrows[id].status = "Resolved" => paid[id] > escrows[id].bounty_amount

\* C13 - refund at most once: after a successful refund every further refund
\* of the same task, authorized by its creator, fails with InvalidTaskStatus
\* and the creator's and the contract's balances stay as they are.
C13_RefundAtMostOnce ==
    \A id \in DOMAIN escrows :
        RefundedBefore(id) =>
            LET r == refund(State, {escrows[id].creator}, id)
            IN /\ r.res = "InvalidTaskStatus"
               /\ Commit(r).balance = balance

\* C14 - approve_completion authorized by the creator succeeds on an
\* InProgress escrow whose bounty the contract holds: it pays the contributor
\* the whole bounty_amount, reduces the contract's balance by it and leaves
\* the status Completed.
C14_ApproveFromInProgress ==
    \A id \in DOMAIN escrows :
        LET e == escrows[id]
            r == approve_completion(State, {e.creator}, id)
        IN (e.status = "InProgress" /\ e.contributor # e.creator
            /\ balance[usdc_token][Contract] >= e.bounty_amount) =>
              /\ r.res = "Ok"
              /\ Received(r, e.contributor) = e.bounty_amount
              /\ Received(r, Contract) = - e.bounty_amount
              /\ r.st.escrows[id].status = "Completed"

\* approve_completion succeeded on task id earlier: it is Resolved and was
\* never disputed
ApprovedBefore(id) ==
    escrows[id].status = "Resolved" /\ id \notin DOMAIN disputes

\* C15 - approve at most once: after approve_completion succeeded, a second
\* approve_completion authorized by the creator fails with InvalidTaskStatus
\* and moves no tokens.
C15_ApproveAtMostOnce ==
    \A id \in DOMAIN escrows :
        ApprovedBefore(id) =>
            LET r == approve_completion(State, {escrows[id].creator}, id)
            IN /\ r.res = "InvalidTaskStatus"
               /\ Commit(r).balance = balance

\* C16 - dispute_task succeeds only when the escrow has a contributor, its
\* status is InProgress or Completed and the disputing party is its creator
\* or its contributor; it then stores the DisputeInfo, sets the status
\* Disputed and records disputed_at.  Every other call fails and changes
\* nothing; authorized by the party and with a valid reason the error is
\* NoContributorAssigned without contributor, else TaskAlreadyResolved in
\* status Disputed, Resolved or Cancelled, else OnlyCreatorOrContributor.
C16_DisputePreconditions ==
    \A id \in DOMAIN escrows, auth \in AuthSets, p \in Addresses, reason \in Reasons :
        LET e == escrows[id]
            r == dispute_task(State, auth, now, p, id, reason)
            parties == {e.creator} \cup (IF e.has_contributor THEN {e.contributor} ELSE {})
            allowed == /\ e.has_contributor
                       /\ e.status \in {"InProgress", "Completed"}
                       /\ p \in parties
        IN /\ r.res = "Ok" =>
                /\ allowed
                /\ r.st.disputes = Put(disputes, id,
                                       [task_id |-> id, disputing_party |-> p,
                                        reason |-> reason, initiated_at |-> now])
                /\ r.st.escrows = Put(escrows, id, [e EXCEPT !.status = "Disputed",
                                                            !.disputed_at = now])
                /\ r.st.balance = balance
           /\ r.res # "Ok" => r.st = State
           /\ (p \in auth /\ validate_dispute_reason(reason) = "Ok") =>
                r.res = IF ~e.has_contributor THEN "NoContributorAssigned"
                        ELSE IF e.status \in {"Disputed", "Resolved", "Cancelled"}
                             THEN "TaskAlreadyResolved"
                        ELSE IF p \notin parties THEN "OnlyCreatorOrContributor"
                        ELSE "Ok"

\* one escrow was disputed and its DisputeInfo stored, a second dispute of it
\* is refused; on another one, in progress, a third party is refused and the
\* contributor is not
C16_Witness ==
    /\ \E id \in DOMAIN escrows :
          /\ escrows[id].status = "Disputed"
          /\ id \in DOMAIN disputes
          /\ dispute_task(State, {escrows[id].creator}, now, escrows[id].creator,
                          id, Reason).res = "TaskAlreadyResolved"
    /\ \E id \in DOMAIN escrows :
          /\ escrows[id].status = "InProgress"
          /\ "carol" \notin {escrows[id].creator, escrows[id].contributor}
          /\ dispute_task(State, {"carol"}, now, "carol", id, Reason).res
                = "OnlyCreatorOrContributor"
          /\ dispute_task(State, {escrows[id].contributor}, now,
                          escrows[id].contributor, id, Reason).res = "Ok"

C18_CompleteOnlyInProgress ==
    \A id \in DOMAIN escrows, auth \in AuthSets :
        LET e == escrows[id]
            r == complete_task(State, auth, now, id)
        IN /\ r.res = "Ok" =>
                /\ e.status = "InProgress"
                /\ r.st.escrows = Put(escrows, id, [e EXCEPT !.status = "Completed",
                                                            !.completed_at = now])
                /\ r.st.balance = balance
           /\ e.status # "InProgress" =>
                /\ r.res = "InvalidTaskStatus"
                /\ r.st = State

\* one task was completed, a second complete_task on it is refused, and so
\* is complete_task on an escrow that has no contributor yet
C18_Witness ==
    /\ \E id \in DOMAIN escrows :
          /\ escrows[id].status = "Completed"
          /\ complete_task(State, {escrows[id].contributor}, now, id).res
                = "InvalidTaskStatus"
    /\ \E id \in DOMAIN escrows :
          /\ escrows[id].status = "Open"
          /\ complete_task(State, Addresses, now, id).res = "InvalidTaskStatus"

\* C19 - pause: while the paused flag is true every state-mutating escrow
\* operation fails with ContractPaused, whatever its other inputs are, and
\* changes nothing.
C19_PausedBlocksAll ==
    paused =>
        \A auth \in Signers, id \in TaskIds :
            /\ \A c \in Users, a \in Amounts :
                  /\ create_escrow(State, auth, now, c, id, Url, a)
                        = Ret("ContractPaused", State)
                  /\ increase_bounty(State, auth, c, id, a) = Ret("ContractPaused", State)
                  /\ decrease_bounty(State, auth, c, id, a) = Ret("ContractPaused", State)
            /\ \A c \in Users :
                  assign_contributor(State, auth, id, c) = Ret("ContractPaused", State)
            /\ complete_task(State, auth, now, id) = Ret("ContractPaused", State)
            /\ approve_completion(State, auth, id) = Ret("ContractPaused", State)
            /\ \A p \in Addresses, reason \in Reasons :
                  dispute_task(State, auth, now, p, id, reason)
                     = Ret("ContractPaused", State)
            /\ \A res \in AllResolutions :
                  resolve_dispute(State, auth, id, res) = Ret("ContractPaused", State)
            /\ refund(State, auth, id) = Ret("ContractPaused", State)

\* C20 - bounty_amount changes only through increase_bounty and
\* decrease_bounty, in lock-step with the tokens: a successful increase by a
\* raises bounty_amount by a and moves a from the creator to the contract, a
\* successful decrease by a lowers it by a and moves a from the contract to
\* the creator; no other operation changes the bounty_amount of any escrow.
C20_BountyLockStep ==
    \A id \in DOMAIN escrows, auth \in Signers :
        LET e == escrows[id]
        IN /\ \A c \in Users, a \in Amounts :
                 LET inc == increase_bounty(State, auth, c, id, a)
                     dec == decrease_bounty(State, auth, c, id, a)
                 IN /\ inc.res = "Ok" =>
                         /\ inc.st.escrows = Put(escrows, id,
                                                 [e EXCEPT !.bounty_amount = @ + a])
                         /\ Received(inc, Contract) = a
                         /\ Received(inc, c) = - a
                    /\ dec.res = "Ok" =>
                         /\ dec.st.escrows = Put(escrows, id,
                                                 [e EXCEPT !.bounty_amount = @ - a])
                         /\ Received(dec, Contract) = - a
                         /\ Received(dec, c) = a
                    /\ inc.res # "Ok" => inc.st.escrows = escrows
                    /\ dec.res # "Ok" => dec.st.escrows = escrows
           /\ \A other \in ValidTaskIds :
                 \A r \in OtherResults(auth, other) :
                     Commit(r).escrows[id].bounty_amount = e.bounty_amount

\* an Open escrow of 100000 whose creator can add 900000: the increase
\* succeeds and a decrease by the same amount brings the record back
C20_Witness ==
    \E id \in DOMAIN escrows :
        LET e == escrows[id]
            inc == increase_bounty(State, {e.creator}, e.creator, id, 900000)
            dec == decrease_bounty(inc.st, {e.creator}, e.creator, id, 900000)
        IN /\ e.status = "Open" /\ e.bounty_amount = 100000
           /\ inc.res = "Ok"
           /\ inc.st.escrows[id].bounty_amount = 1000000
           /\ dec.res = "Ok"
           /\ dec.st.escrows = escrows
           /\ dec.st.balance = balance

\* C21 - decrease_bounty never leaves an escrow with less than the minimum
\* bounty: on an Open escrow a decrease, authorized by the creator, by the
\* current bounty, by more than it, or leaving less than the minimum fails
\* with InvalidAmount and changes neither bounty_amount nor any balance; the
\* bounty_amount of every escrow is at least the minimum, so above 0.
C21_DecreaseKeepsMinimum ==
    \A id \in DOMAIN escrows :
        LET e == escrows[id]
        IN /\ e.bounty_amount >= MIN_AMOUNT
           /\ e.bounty_amount > 0
           /\ \A auth \in Signers, c \in Users,
                 a \in Amounts \cup {e.bounty_amount, e.bounty_amount + 1} :
                 LET r == decrease_bounty(State, auth, c, id, a)
                 IN /\ r.res = "Ok" =>
                         r.st.escrows[id].bounty_amount >= MIN_AMOUNT
                    /\ (e.status = "Open" /\ c = e.creator /\ c \in auth
                        /\ a > 0 /\ e.bounty_amount - a < MIN_AMOUNT) =>
                         /\ r = Ret("InvalidAmount", State)
                         /\ Commit(r) = State

\* an Open escrow of 1000000: a decrease by 900000 succeeds and leaves the
\* minimum, a decrease by the whole bounty, by one more, or by 950000 is
\* refused with InvalidAmount
C21_Witness ==
    \E id \in DOMAIN escrows :
        LET e == escrows[id]
            dec(a) == decrease_bounty(State, {e.creator}, e.creator, id, a)
        IN /\ e.status = "Open" /\ e.bounty_amount = 1000000
           /\ dec(900000).res = "Ok"
           /\ dec(900000).st.escrows[id].bounty_amount = MIN_AMOUNT
           /\ dec(1000000).res = "InvalidAmount"
           /\ dec(1000001).res = "InvalidAmount"
           /\ dec(950000).res = "InvalidAmount"

\* C22 - initialize is one-time: once the contract is initialized every
\* further initialize call, whatever its arguments, fails with
\* TaskAlreadyExists and leaves admin, token address and task_count as they
\* are.
C22_InitializeOnce ==
    admin # None =>
        \A a \in Addresses, tok \in Tokens :
            LET r == initialize(State, a, tok)
            IN /\ r = Ret("TaskAlreadyExists", State)
               /\ Commit(r) = State

\* an initialized contract whose admin and token address were rotated and
\* that holds escrows: initialize with the original arguments is refused
C22_Witness ==
    /\ admin = "alice"
    /\ usdc_token = "usdcB"
    /\ task_count = 2
    /\ initialize(State, "carol", "usdcA").res = "TaskAlreadyExists"

\* C23 - admin rotation: once set, the stored admin changes only through a
\* set_admin call authorized by the admin current at the call; after
\* set_admin(new_admin) succeeded, set_admin, update_usdc_token and upgrade
\* succeed with new_admin's authorization, and they and resolve_dispute fail,
\* changing nothing, without it, in particular with the previous admin's.
C23_AdminRotation ==
    admin # None =>
        /\ \A a \in Addresses, tok \in Tokens :
              Commit(initialize(State, a, tok)).admin = admin
        /\ \A auth \in AuthSets, id \in ValidTaskIds :
              \A r \in Results(auth, id) :
                  Commit(r).admin # admin =>
                      /\ admin \in auth
                      /\ r \in {set_admin(State, auth, a) : a \in Addresses}
        /\ \A new \in Addresses :
              LET s == set_admin(State, {admin}, new)
              IN /\ s.res = "Ok"
                 /\ s.st = [State EXCEPT !.admin = new]
                 /\ \A auth \in AuthSets :
                       /\ new \in auth =>
                             /\ \A a \in Addresses : set_admin(s.st, auth, a).res = "Ok"
                             /\ \A tok \in Tokens :
                                   update_usdc_token(s.st, auth, tok).res = "Ok"
                             /\ \A h \in WasmHashes : upgrade(s.st, auth, h).res = "Ok"
                       /\ new \notin auth =>
                             /\ \A a \in Addresses :
                                   set_admin(s.st, auth, a) = Ret("AuthTrap", s.st)
                             /\ \A tok \in Tokens :
                                   update_usdc_token(s.st, auth, tok) = Ret("AuthTrap", s.st)
                             /\ \A h \in WasmHashes :
                                   upgrade(s.st, auth, h) = Ret("AuthTrap", s.st)
                             /\ \A id \in ValidTaskIds, res \in Resolutions :
                                   resolve_dispute(s.st, auth, id, res)
                                      = Ret("AuthTrap", s.st)

\* the admin was rotated from carol to alice while a dispute is open: carol's
\* authorization no longer passes for any admin operation, alice's does
C23_Witness ==
    /\ admin = "alice"
    /\ set_admin(State, {"carol"}, "carol").res = "AuthTrap"
    /\ update_usdc_token(State, {"carol"}, "usdcB").res = "AuthTrap"
    /\ upgrade(State, {"carol"}, "wasm1").res = "AuthTrap"
    /\ upgrade(State, {"alice"}, "wasm1").res = "Ok"
    /\ \E id \in DOMAIN escrows :
          /\ escrows[id].status = "Disputed"
          /\ resolve_dispute(State, {"carol"}, id,
                             [kind |-> "RefundCreator", amount |-> 0]).res = "AuthTrap"
          /\ resolve_dispute(State, {"alice"}, id,
                             [kind |-> "RefundCreator", amount |-> 0]).res = "Ok"

\* C24 - task_count is 0 after initialize, increases by exactly 1 on each
\* successful create_escrow, is left as it is by every other operation and by
\* every failed call, so it never decreases and always equals the number of
\* escrow records stored.
C24_TaskCount ==
    /\ task_count = Cardinality(DOMAIN escrows)
    /\ \A a \in Addresses, tok \in Tokens :
          initialize(State, a, tok).res = "Ok" =>
              initialize(State, a, tok).st.task_count = 0
    /\ \A auth \in Signers, id \in ValidTaskIds :
          LET creates == {create_escrow(State, auth, now, c, id, Url, a) :
                             c \in Users, a \in CreateAmounts}
          IN \A r \in Results(auth, id) :
                 /\ Commit(r).task_count
                       = task_count + (IF r.res = "Ok" /\ r \in creates THEN 1 ELSE 0)
                 /\ Cardinality(DOMAIN Commit(r).escrows) = Commit(r).task_count

\* two escrows were created, one of them is already Cancelled or Resolved and
\* still counted; a third create_escrow on a used id leaves the count at 2
C24_Witness ==
    /\ task_count = 2
    /\ \E id \in DOMAIN escrows : escrows[id].status \in Terminal
    /\ \E id \in DOMAIN escrows : escrows[id].status \notin Terminal
    /\ \A id \in DOMAIN escrows :
          Commit(create_escrow(State, {"alice"}, now, "alice", id, Url, 100000)).task_count = 2

\* C25 - record immutability: whatever operation runs, on whatever task, an
\* escrow record stays stored under its task id with the same task_id,
\* creator and created_at, and with the same contributor once it has one.
C25_RecordImmutable ==
    /\ \A a \in Addresses, tok \in Tokens :
          Commit(initialize(State, a, tok)).escrows = escrows
    /\ \A id \in DOMAIN escrows :
          LET e == escrows[id]
          IN /\ e.task_id = id
             /\ \A auth \in Signers, other \in ValidTaskIds :
                   \A r \in Results(auth, other) :
                       LET after == Commit(r).escrows
                       IN /\ id \in DOMAIN after
                          /\ after[id].task_id = e.task_id
                          /\ after[id].creator = e.creator
                          /\ after[id].created_at = e.created_at
                          /\ e.has_contributor =>
                                /\ after[id].has_contributor
                                /\ after[id].contributor = e.contributor

\* an escrow created at time 0 was assigned and then completed at time 1: it
\* still carries created_at 0, and a further assignment of somebody else is
\* refused
C25_Witness ==
    \E id \in DOMAIN escrows :
        LET e == escrows[id]
        IN /\ now = 1
           /\ e.created_at = 0
           /\ e.status = "Completed" /\ e.completed_at = 1
           /\ e.contributor = "bob"
           /\ assign_contributor(State, {e.creator}, id, "alice").res
                 = "ContributorAlreadyAssigned"

\* the call published exactly one event, of the given kind, when it
\* succeeded, and none when it failed
OneEvent(r, kind) ==
    /\ r.res = "Ok" => Len(r.st.events) = 1 /\ r.st.events[1].kind = kind
    /\ r.res # "Ok" => r.st.events = <<>>

\* C26 - events: every successful create_escrow, assign_contributor,
\* complete_task, approve_completion, dispute_task, resolve_dispute, refund,
\* increase_bounty, decrease_bounty and upgrade emits exactly one event of
\* the matching kind, and every failed call emits none.
C26_OneEventPerCall ==
    \A auth \in Signers :
        /\ \A h \in WasmHashes : OneEvent(upgrade(State, auth, h), "contract_upgraded")
        /\ \A id \in ValidTaskIds :
              /\ \A c \in Users, a \in Amounts :
                    /\ OneEvent(create_escrow(State, auth, now, c, id, Url, a),
                                "escrow_created")
                    /\ OneEvent(increase_bounty(State, auth, c, id, a), "bounty_increased")
                    /\ OneEvent(decrease_bounty(State, auth, c, id, a), "bounty_decreased")
              /\ \A c \in Users :
                    OneEvent(assign_contributor(State, auth, id, c), "contributor_assigned")
              /\ OneEvent(complete_task(State, auth, now, id), "task_completed")
              /\ OneEvent(approve_completion(State, auth, id), "funds_released")
              /\ \A p \in Addresses :
                    OneEvent(dispute_task(State, auth, now, p, id, Reason),
                             "dispute_initiated")
              /\ \A res \in AllResolutions :
                    OneEvent(resolve_dispute(State, auth, id, res), "dispute_resolved")
              /\ OneEvent(refund(State, auth, id), "refund_processed")

\* the error of the first violated precondition of a list of
\* <<violated, error>> pairs, "Ok" when none is violated
FirstViolated(checks) ==
    LET bad == {i \in 1..Len(checks) : checks[i][1]}
    IN IF bad = {} THEN "Ok"
       ELSE checks[CHOOSE i \in bad : \A j \in bad : i <= j][2]

\* the call reports the first violated precondition of the list, and
\* succeeds only when none is violated
Reports(r, checks) ==
    /\ FirstViolated(checks) # "Ok" => r.res = FirstViolated(checks)
    /\ r.res = "Ok" => FirstViolated(checks) = "Ok"

Uninitialized == admin = None \/ usdc_token = None
BadId(id) == id.len # TASK_ID_LEN
Missing(id) == id \notin DOMAIN escrows
StatusNot(id, statuses) == id \in DOMAIN escrows /\ escrows[id].status \notin statuses
NotSignedByCreator(id, auth) == id \in DOMAIN escrows /\ escrows[id].creator \notin auth

\* C27 (as stated) - create_escrow and complete_task report the first
\* violated precondition in the order input validation, initialized guard,
\* caller authentication, existence of the record, status; a malformed task
\* id on an uninitialized contract reports the task-id error.
C27_CheckOrder_Original ==
    \A auth \in Signers, id \in TaskIds :
        /\ \A c \in Users, url \in Urls, a \in {0, 50000, 100000} :
              Reports(create_escrow(State, auth, now, c, id, url, a),
                      << <<id.len = 0, "EmptyTaskId">>,
                         <<BadId(id), "InvalidTaskId">>,
                         <<validate_issue_url(url) # "Ok", "InvalidIssueUrl">>,
                         <<a < MIN_AMOUNT, "InvalidAmount">>,
                         <<Uninitialized, "ContractNotInitialized">>,
                         <<c \notin auth, "AuthTrap">>,
                         <<~Missing(id), "TaskAlreadyExists">> >>)
        /\ Reports(complete_task(State, auth, now, id),
                   << <<id.len = 0, "EmptyTaskId">>,
                      <<BadId(id), "InvalidTaskId">>,
                      <<Uninitialized, "ContractNotInitialized">>,
                      <<id \in DOMAIN escrows /\ escrows[id].has_contributor
                           /\ escrows[id].contributor \notin auth, "AuthTrap">>,
                      <<Missing(id), "TaskNotFound">>,
                      <<StatusNot(id, {"InProgress"}), "InvalidTaskStatus">> >>)

\* C27 (amended) - every escrow operation reports exactly one error, that of
\* the first violated precondition in its handler's own order.  The
\* initialized guard always comes first, before input validation.  Then
\* create_escrow authenticates the creator, validates task id, url and amount
\* and checks that the id is unused; assign_contributor, approve_completion
\* and refund validate the task id, look the record up and authenticate the
\* creator before the contributor and status checks; complete_task validates
\* the task id, looks the record up and checks the status before it
\* authenticates the contributor; dispute_task validates task id and reason
\* and authenticates the party before the lookup; resolve_dispute validates
\* the task id and authenticates the admin before the lookup and the status.
C27_CheckOrder ==
    \A auth \in Signers, id \in TaskIds :
        /\ \A c \in Users, url \in Urls, a \in {0, 50000, 100000} :
              Reports(create_escrow(State, auth, now, c, id, url, a),
                      << <<Uninitialized, "ContractNotInitialized">>,
                         <<c \notin auth, "AuthTrap">>,
                         <<id.len = 0, "EmptyTaskId">>,
                         <<BadId(id), "InvalidTaskId">>,
                         <<validate_issue_url(url) # "Ok", "InvalidIssueUrl">>,
                         <<a < MIN_AMOUNT, "InvalidAmount">>,
                         <<~Missing(id), "TaskAlreadyExists">> >>)
        /\ \A c \in Users :
              Reports(assign_contributor(State, auth, id, c),
                      << <<Uninitialized, "ContractNotInitialized">>,
                         <<id.len = 0, "EmptyTaskId">>,
                         <<BadId(id), "InvalidTaskId">>,
                         <<Missing(id), "TaskNotFound">>,
                         <<NotSignedByCreator(id, auth), "AuthTrap">>,
                         <<id \in DOMAIN escrows /\ escrows[id].has_contributor,
                           "ContributorAlreadyAssigned">> >>)
        /\ Reports(complete_task(State, auth, now, id),
                   << <<Uninitialized, "ContractNotInitialized">>,
                      <<id.len = 0, "EmptyTaskId">>,
                      <<BadId(id), "InvalidTaskId">>,
                      <<Missing(id), "TaskNotFound">>,
                      <<StatusNot(id, {"InProgress"}), "InvalidTaskStatus">>,
                      <<id \in DOMAIN escrows /\ ~escrows[id].has_contributor,
                        "NoContributorAssigned">>,
                      <<id \in DOMAIN escrows /\ escrows[id].contributor \notin auth,
                        "AuthTrap">> >>)
        /\ Reports(approve_completion(State, auth, id),
                   << <<Uninitialized, "ContractNotInitialized">>,
                      <<id.len = 0, "EmptyTaskId">>,
                      <<BadId(id), "InvalidTaskId">>,
                      <<Missing(id), "TaskNotFound">>,
                      <<NotSignedByCreator(id, auth), "AuthTrap">>,
                      <<StatusNot(id, {"Completed"}), "TaskNotCompleted">> >>)
        /\ \A p \in Addresses, reason \in Reasons :
              Reports(dispute_task(State, auth, now, p, id, reason),
                      << <<Uninitialized, "ContractNotInitialized">>,
                         <<id.len = 0, "EmptyTaskId">>,
                         <<BadId(id), "InvalidTaskId">>,
                         <<validate_dispute_reason(reason) # "Ok", "InvalidDisputeReason">>,
                         <<p \notin auth, "AuthTrap">>,
                         <<Missing(id), "TaskNotFound">>,
                         <<id \in DOMAIN escrows /\ ~escrows[id].has_contributor,
                           "NoContributorAssigned">>,
                         <<StatusNot(id, {"Open", "InProgress", "Completed"}),
                           "TaskAlreadyResolved">>,
                         <<id \in DOMAIN escrows
                              /\ p \notin {escrows[id].creator, escrows[id].contributor},
                           "OnlyCreatorOrContributor">> >>)
        /\ \A res \in Resolutions :
              Reports(resolve_dispute(State, auth, id, res),
                      << <<Uninitialized, "ContractNotInitialized">>,
                         <<id.len = 0, "EmptyTaskId">>,
                         <<BadId(id), "InvalidTaskId">>,
                         <<admin \notin auth, "AuthTrap">>,
                         <<Missing(id), "TaskNotFound">>,
                         <<StatusNot(id, {"Disputed"}), "TaskNotDisputed">> >>)
        /\ Reports(refund(State, auth, id),
                   << <<Uninitialized, "ContractNotInitialized">>,
                      <<id.len = 0, "EmptyTaskId">>,
                      <<BadId(id), "InvalidTaskId">>,
                      <<Missing(id), "TaskNotFound">>,
                      <<NotSignedByCreator(id, auth), "AuthTrap">>,
                      <<id \in DOMAIN escrows /\ escrows[id].has_contributor,
                        "ContributorAlreadyAssigned">>,
                      <<StatusNot(id, {"Open"}), "InvalidTaskStatus">> >>)

\* an Open escrow: calls that violate several preconditions at once report
\* the one their handler checks first
C27_Witness ==
    \E id \in DOMAIN escrows :
        /\ escrows[id].status = "Open"
        /\ complete_task(State, {"carol"}, now, id).res = "InvalidTaskStatus"
        /\ create_escrow(State, {"bob"}, now, "alice", ShortId, Url, 0).res = "AuthTrap"
        /\ create_escrow(State, {"alice"}, now, "alice", ShortId, Url, 0).res
              = "InvalidTaskId"
        /\ create_escrow(State, {"alice"}, now, "alice", id, Url, 0).res = "InvalidAmount"
        /\ dispute_task(State, {"bob"}, now, "carol", EmptyId, Reason).res = "EmptyTaskId"
        /\ resolve_dispute(State, {"bob"}, id,
                           [kind |-> "PayContributor", amount |-> 0]).res = "AuthTrap"

\* the read left the ledger as it was
Pure(r) == r.st = State

\* C28 - the read operations are pure: get_escrow, get_dispute_info,
\* get_task_count and the balance queries leave the whole ledger as it is,
\* and the same read made again right after returns the same result.
C28_ReadsPure ==
    /\ Pure(get_task_count(State))
    /\ get_task_count(get_task_count(State).st) = get_task_count(State)
    /\ get_task_count(State).val = task_count
    /\ Pure(get_contract_usdc_balance(State))
    /\ get_contract_usdc_balance(get_contract_usdc_balance(State).st)
          = get_contract_usdc_balance(State)
    /\ \A id \in TaskIds :
          /\ Pure(get_escrow(State, id))
          /\ Pure(get_dispute_info(State, id))
          /\ get_escrow(get_escrow(State, id).st, id) = get_escrow(State, id)
          /\ get_dispute_info(get_dispute_info(State, id).st, id)
                = get_dispute_info(State, id)
          /\ get_escrow(get_dispute_info(State, id).st, id) = get_escrow(State, id)
    /\ \A a \in Holders :
          /\ Pure(get_usdc_balance(State, a))
          /\ get_usdc_balance(get_usdc_balance(State, a).st, a) = get_usdc_balance(State, a)
          /\ \A n \in Amounts :
                /\ Pure(has_sufficient_usdc_balance(State, a, n))
                /\ has_sufficient_usdc_balance(
                       has_sufficient_usdc_balance(State, a, n).st, a, n)
                      = has_sufficient_usdc_balance(State, a, n)

\* a disputed escrow: its record and its DisputeInfo are read successfully,
\* twice with the same result, and the contract's balance is read as held
C28_Witness ==
    \E id \in DOMAIN disputes :
        /\ escrows[id].status = "Disputed"
        /\ get_dispute_info(State, id).res = "Ok"
        /\ get_dispute_info(State, id).val = disputes[id]
        /\ get_dispute_info(get_dispute_info(State, id).st, id).val = disputes[id]
        /\ get_escrow(State, id).res = "Ok"
        /\ get_task_count(State).val = 2
        /\ get_contract_usdc_balance(State).val = balance[usdc_token][Contract]
        /\ get_contract_usdc_balance(State).val > 0

\* the calls on an existing escrow that take no tokens from a wallet, each
\* authorized by every address
TaskCalls ==
    {[op |-> "assign_contributor", arg |-> c] : c \in Users}
    \cup {[op |-> "dispute_task", arg |-> p] : p \in Addresses}
    \cup {[op |-> "resolve_dispute", arg |-> res] : res \in Resolutions}
    \cup {[op |-> o, arg |-> None] :
             o \in {"complete_task", "approve_completion", "refund"}}

Apply(S, call, id) ==
    CASE call.op = "assign_contributor" -> assign_contributor(S, Addresses, id, call.arg)
      [] call.op = "complete_task" -> complete_task(S, Addresses, now, id)
      [] call.op = "approve_completion" -> approve_completion(S, Addresses, id)
      [] call.op = "dispute_task" -> dispute_task(S, Addresses, now, call.arg, id, Reason)
      [] call.op = "resolve_dispute" -> resolve_dispute(S, Addresses, id, call.arg)
      [] call.op = "refund" -> refund(S, Addresses, id)

\* the ledger the host keeps after the call r made on the ledger S
After(S, r) == IF r.res = "Ok" THEN [r.st EXCEPT !.events = <<>>] ELSE S

\* what the call r made on the ledger S paid to each holder
Net(S, r) ==
    [tok \in Tokens |->
        [h \in Holders |-> After(S, r).balance[tok][h] - S.balance[tok][h]]]

\* C29 - independence of escrows: an operation on task a leaves the
\* TaskEscrow and DisputeInfo records of every other task b unchanged, and an
\* operation on b has the same result and pays the same amounts whether it
\* runs before or after the operation on a.
C29_Independence ==
    \A a \in DOMAIN escrows, b \in DOMAIN escrows :
        a # b =>
            \A ca \in TaskCalls, cb \in TaskCalls :
                LET Sa == After(State, Apply(State, ca, a))
                    before == Apply(State, cb, b)
                    after == Apply(Sa, cb, b)
                IN /\ Sa.escrows[b] = escrows[b]
                   /\ (b \in DOMAIN Sa.disputes) = (b \in DOMAIN disputes)
                   /\ b \in DOMAIN disputes => Sa.disputes[b] = disputes[b]
                   /\ after.res = before.res
                   /\ Net(Sa, after) = Net(State, before)

\* C30 - upgrade is admin-only: it fails with ContractNotInitialized before
\* initialization and fails without the current admin's authorization, both
\* with nothing changed; when it succeeds it replaces the code and leaves
\* admin, token address, task_count, every escrow and dispute record and
\* every balance as they are.
C30_UpgradeAdminOnly ==
    \A auth \in AuthSets, h \in WasmHashes :
        LET r == upgrade(State, auth, h)
        IN /\ admin = None => r = Ret("ContractNotInitialized", State)
           /\ (admin # None /\ admin \notin auth) => r = Ret("AuthTrap", State)
           /\ r.res = "Ok" =>
                 /\ admin \in auth
                 /\ r.st = [State EXCEPT !.wasm = h]
                 /\ Storage(r.st) = [Storage(State) EXCEPT !.wasm = h]

\* the code was upgraded while the contract holds a disputed escrow, and a
\* further upgrade is refused to everybody but the admin
C30_Witness ==
    /\ wasm = "wasm1"
    /\ \E id \in DOMAIN disputes : escrows[id].status = "Disputed"
    /\ upgrade(State, Addresses \ {admin}, "wasm1").res = "AuthTrap"
    /\ upgrade(State, {admin}, "wasm1").res = "Ok"

\* the validator under examination has returned
Returned(fn) == input.fn = fn /\ output # None

\* C31 as stated - validate_partial_payment(partial, total) rejects with
\* InvalidTokenAmount exactly when the partial exceeds the total, is below 1%
\* of the total (total / 100) or leaves a remainder below 1% of the total; it
\* accepts every other pair, and a partial of exactly 1% is accepted for any
\* bounty.
C31_PartialPayment_Original ==
    Returned("validate_partial_payment") =>
        LET p == input.partial
            t == input.total
            one_percent == t \div PERCENT
            rejected == p > t \/ p < one_percent \/ t - p < one_percent
        IN /\ rejected => output = "InvalidTokenAmount"
           /\ ~rejected => output = "Ok"
           /\ p = one_percent => output = "Ok"

\* C31 - validate_partial_payment(partial, total) first applies
\* validate_amount to the partial and returns its error (InvalidAmount for a
\* partial below 100000); a partial that passes is rejected with
\* InvalidTokenAmount exactly when it exceeds the total, is below total / 100
\* or leaves a remainder below total / 100, and is accepted otherwise; a
\* partial of exactly total / 100 is accepted when it is at least 100000.
C31_PartialPayment ==
    Returned("validate_partial_payment") =>
        LET p == input.partial
            t == input.total
            one_percent == t \div PERCENT
            rejected == p > t \/ p < one_percent \/ t - p < one_percent
        IN /\ p < MIN_AMOUNT => output = "InvalidAmount"
           /\ (p >= MIN_AMOUNT /\ rejected) => output = "InvalidTokenAmount"
           /\ (p >= MIN_AMOUNT /\ ~rejected) => output = "Ok"
           /\ (p = one_percent /\ p >= MIN_AMOUNT) => output = "Ok"

\* a partial of exactly 1% of the bounty, equal to the minimum amount, was
\* accepted
C31_Witness ==
    /\ Returned("validate_partial_payment")
    /\ input.total = 10000000
    /\ input.partial = input.total \div PERCENT
    /\ output = "Ok"

\* x < y on amounts written as limbs
Below(x, y) == x.hi < y.hi \/ (x.hi = y.hi /\ x.lo < y.lo)
MinValid == [hi |-> 0, lo |-> MIN_AMOUNT]
MaxValid == [hi |-> MAX_AMOUNT_HI, lo |-> 0]

Completes(id) ==
    /\ id \in DOMAIN escrows
    /\ escrows[id].status = "InProgress"
    /\ escrows'[id].status = "Completed"

\* the step is a successful dispute_task on id
Disputes(id) ==
    /\ id \in DOMAIN escrows
    /\ escrows[id].status # "Disputed"
    /\ escrows'[id].status = "Disputed"

\* completed_at and disputed_at start at zero, are written only by the step
\* of complete_task and dispute_task that succeeds, with the ledger time of
\* that step, and are zero in every escrow not yet completed or disputed
StampedByTransition ==
    \A id \in DOMAIN escrows' :
        LET e1 == escrows'[id]
        IN /\ id \notin DOMAIN escrows =>
                 e1.completed_at = 0 /\ e1.disputed_at = 0
           /\ id \in DOMAIN escrows =>
                 /\ e1.completed_at =
                       IF Completes(id) THEN now ELSE escrows[id].completed_at
                 /\ e1.disputed_at =
                       IF Disputes(id) THEN now ELSE escrows[id].disputed_at
           /\ e1.status \in {"Open", "InProgress", "Cancelled"} =>
                 e1.completed_at = 0
           /\ id \notin DOMAIN disputes' => e1.disputed_at = 0

\* C33 as stated - completed_at is zero exactly when complete_task has not
\* yet succeeded and disputed_at is zero exactly when dispute_task has not
\* yet succeeded; a nonzero value is the ledger time of that transition.
C33_Timestamps_Original ==
    [][/\ StampedByTransition
       /\ \A id \in DOMAIN escrows :
             /\ Completes(id) => escrows'[id].completed_at # 0
             /\ Disputes(id) => escrows'[id].disputed_at # 0]_vars

\* C33 - completed_at is zero while complete_task has not yet succeeded and
\* disputed_at is zero while dispute_task has not yet succeeded; the step
\* that succeeds writes the ledger time of that transition, which is nonzero
\* whenever the ledger time is nonzero, and no other step writes the field.
C33_Timestamps ==
    [][/\ StampedByTransition
       /\ \A id \in DOMAIN escrows :
             /\ (Completes(id) /\ now # 0) => escrows'[id].completed_at # 0
             /\ (Disputes(id) /\ now # 0) => escrows'[id].disputed_at # 0]_vars

\* an escrow created at time 0 was completed and disputed at time 1, next to
\* one disputed without having been completed
C33_Witness ==
    /\ \E id \in DOMAIN escrows :
          /\ escrows[id].status = "Disputed"
          /\ escrows[id].created_at = 0
          /\ escrows[id].completed_at = 1
          /\ escrows[id].disputed_at = 1
    /\ \E id \in DOMAIN escrows :
          /\ escrows[id].status = "Disputed"
          /\ escrows[id].completed_at = 0
          /\ escrows[id].disputed_at = 1

LongId == [len |-> 26, tag |-> "A"]
MalformedIds == {EmptyId, ShortId, LongId}
TaskIdError(id) == IF id.len = 0 THEN "EmptyTaskId" ELSE "InvalidTaskId"

\* the results of every operation of lib.rs that takes the task id, called
\* with the signatures auth
TaskIdResults(auth, id) ==
    {create_escrow(State, auth, now, c, id, url, a) :
        c \in auth \cap Users, url \in Urls, a \in {0, 100000}}
    \cup {assign_contributor(State, auth, id, c) : c \in Users}
    \cup {complete_task(State, auth, now, id), approve_completion(State, auth, id),
          refund(State, auth, id)}
    \cup {dispute_task(State, auth, now, p, id, r) : p \in Addresses, r \in Reasons}
    \cup {resolve_dispute(State, auth, id, res) : res \in Resolutions}

C35_PartialPayable ==
    \A id \in DOMAIN escrows :
        LET e == escrows[id]
        IN (/\ e.status = "Disputed"
            /\ balance[usdc_token][Contract] >= e.bounty_amount) =>
               \A a \in Amounts :
                   validate_partial_payment(a, e.bounty_amount) = "Ok" =>
                       LET r == resolve_dispute(State, {admin}, id,
                                                [kind |-> "PartialPayment", amount |-> a])
                       IN /\ r.res = "Ok"
                          /\ validate_amount(e.bounty_amount - a) = "Ok"

PayoutCalls == {c \in TaskCalls : c.op \in PayoutOps}

\* C36 - token rotation does not affect custody: a payout pays tokens of the
\* token contract that received the escrow's deposit, so a payout that
\* succeeds now still succeeds after update_usdc_token and moves the same
\* amounts of the same token between the same holders.
C36_RotationKeepsCustody ==
    \A id \in DOMAIN escrows, call \in PayoutCalls, tok \in Tokens :
        LET rotated == After(State, update_usdc_token(State, {admin}, tok))
            before == Apply(State, call, id)
            after == Apply(rotated, call, id)
        IN before.res = "Ok" =>
              /\ after.res = "Ok"
              /\ Net(rotated, after) = Net(State, before)

\* C37 - no stuck escrow: with parties that carry out the operations open to
\* them, every created escrow eventually reaches Resolved or Cancelled.
C37_NoStuckEscrow ==
    \A id \in ValidTaskIds :
        (id \in DOMAIN escrows) ~>
            (id \in DOMAIN escrows /\ escrows[id].status \in Terminal)

\* C38 - on a Completed escrow approve_completion by the creator and
\* dispute_task by the creator or the contributor exclude each other:
\* whichever runs first succeeds, the other then fails and moves no tokens,
\* and after the approval no dispute resolution can pay the bounty again.
C38_ApproveDisputeExclusive ==
    \A id \in DOMAIN escrows :
        LET e == escrows[id]
        IN e.status = "Completed" =>
              \A p \in {e.creator, e.contributor} :
                  LET ap == approve_completion(State, {e.creator}, id)
                      dp == dispute_task(State, {p}, now, p, id, Reason)
                      Sa == After(State, ap)
                      Sd == After(State, dp)
                  IN /\ ap.res = "Ok"
                     /\ dp.res = "Ok"
                     /\ dispute_task(Sa, {p}, now, p, id, Reason)
                           = Ret("TaskAlreadyResolved", Sa)
                     /\ approve_completion(Sd, {e.creator}, id)
                           = Ret("TaskNotCompleted", Sd)
                     /\ \A res \in Resolutions :
                           resolve_dispute(Sa, {admin}, id, res)
                              = Ret("TaskNotDisputed", Sa)

\* C39 - a DisputeInfo exists exactly for the escrows on which dispute_task
\* has succeeded: the successful dispute_task writes it, naming the escrow's
\* creator or contributor as disputing party, and no later operation, the
\* resolution included, modifies or deletes it; get_dispute_info returns it,
\* and fails with TaskNotFound where no escrow exists and with
\* TaskNotDisputed for an escrow never disputed.
C39_DisputeInfo ==
    [][/\ \A id \in DOMAIN disputes :
             id \in DOMAIN disputes' /\ disputes'[id] = disputes[id]
       /\ \A id \in DOMAIN escrows :
             Disputes(id) <=> (id \notin DOMAIN disputes /\ id \in DOMAIN disputes')
       /\ \A id \in DOMAIN disputes' :
             /\ id \in DOMAIN escrows
             /\ escrows'[id].status \in {"Disputed", "Resolved"}
             /\ disputes'[id].task_id = id
             /\ disputes'[id].disputing_party
                   \in {escrows'[id].creator, escrows'[id].contributor}
             /\ Disputes(id) => disputes'[id].initiated_at = now
       /\ is_initialized(State') =>
             \A id \in ValidTaskIds :
                 LET r == get_dispute_info(State', id)
                 IN /\ id \notin DOMAIN escrows' => r.res = "TaskNotFound"
                    /\ (id \in DOMAIN escrows' /\ id \notin DOMAIN disputes')
                          => r.res = "TaskNotDisputed"
                    /\ id \in DOMAIN disputes' =>
                          r.res = "Ok" /\ r.val = disputes'[id]]_vars

\* a dispute opened by the contributor was resolved and its DisputeInfo is
\* still returned, next to an escrow that was never disputed
C39_Witness ==
    /\ \E id \in DOMAIN disputes :
          /\ escrows[id].status = "Resolved"
          /\ disputes[id].disputing_party = escrows[id].contributor
          /\ disputes[id].disputing_party # escrows[id].creator
          /\ get_dispute_info(State, id).res = "Ok"
    /\ \E id \in DOMAIN escrows :
          /\ id \notin DOMAIN disputes
          /\ get_dispute_info(State, id).res = "TaskNotDisputed"

\* C40 - timestamp ordering under a clock that never runs backwards:
\* complete_task and dispute_task each succeed at most once per escrow and
\* are the only writers of completed_at and disputed_at; after complete_task
\* created_at <= completed_at, after dispute_task created_at <= disputed_at,
\* and completed_at <= disputed_at when the escrow was completed before it
\* was disputed.
C40_TimestampOrder ==
    [][\A id \in DOMAIN escrows :
          LET e == escrows[id]
              e1 == escrows'[id]
          IN /\ now <= now'
             /\ e1.created_at = e.created_at
             /\ e1.completed_at # e.completed_at => Completes(id)
             /\ e1.disputed_at # e.disputed_at => Disputes(id)
             /\ e.status \in {"Completed", "Disputed", "Resolved"} =>
                   ~Completes(id) /\ e1.status # "InProgress"
             /\ e.status \in {"Disputed", "Resolved"} => ~Disputes(id)
             /\ Completes(id) =>
                   /\ e.completed_at = 0 /\ e.disputed_at = 0
                   /\ e1.created_at <= e1.completed_at
             /\ Disputes(id) =>
                   /\ e.disputed_at = 0
                   /\ e1.created_at <= e1.disputed_at
                   /\ e.status = "Completed" => e1.completed_at <= e1.disputed_at
             /\ e1.status = "Completed" => e1.created_at <= e1.completed_at
             /\ id \in DOMAIN disputes' =>
                   /\ e1.created_at <= e1.disputed_at
                   /\ e1.completed_at <= e1.disputed_at
                   /\ e1.completed_at # 0 => e1.created_at <= e1.completed_at]_vars

\* an escrow created at time 1, after the clock advanced, was completed and
\* then disputed; another, created at time 0, was completed at time 1
C40_Witness ==
    /\ now = 1
    /\ \E id \in DOMAIN disputes :
          /\ escrows[id].created_at = 1
          /\ escrows[id].completed_at = 1
          /\ escrows[id].disputed_at = 1
          /\ escrows[id].status = "Disputed"
    /\ \E id \in DOMAIN escrows :
          /\ escrows[id].status = "Completed"
          /\ escrows[id].created_at = 0
          /\ escrows[id].completed_at = 1

====
